---- MODULE Spec2Model ----
(***************************************************************************)
(* A model of the stock_scanner signal-detection and backtesting engine:   *)
(*   backtest/ma_sensitivity.py  the walk-forward MA-touch backtester      *)
(*   scanners/*.py               the three scanners and ScanResult         *)
(*   main.py                     the scan command's combine step           *)
(*                                                                         *)
(* Prices are non-negative integers (all the formulas of the program are   *)
(* ratios of prices, so the unit is free).  A float is modelled as an      *)
(* exact rational [k |-> "num", n, d] in lowest terms, or as one of the    *)
(* IEEE values the numpy division by zero produces ("inf", "ninf", "nan"); *)
(* Python's None is [k |-> "none"].                                        *)
(***************************************************************************)
EXTENDS Integers, Sequences, FiniteSets, TLC

VARIABLES
    mode,            \* which entry point of the program this run exercises
    pc,              \* position inside the running function
    ohlcv,           \* the price series: a sequence of bars (row 0 is ohlcv[1])
    args,            \* the arguments / configuration of the running call
    i,               \* backtest_ma_sensitivity: the loop index
    last_touch_idx,  \* backtest_ma_sensitivity: last counted bar
    touches,         \* backtest_ma_sensitivity/_compute_metrics: the event list
    result,          \* what the running function returned
    loc,             \* other locals of the running function
    fundamentals     \* scan: the ticker's fundamentals record

vars == <<mode, pc, ohlcv, args, i, last_touch_idx, touches, result, loc,
         fundamentals>>

----------------------------------------------------------------------------
(* Floats *)

Abs(x) == IF x < 0 THEN -x ELSE x

RECURSIVE Gcd(_, _)
Gcd(a, b) == IF b = 0 THEN a ELSE Gcd(b, a % b)

\* the rational n/d (d # 0) in lowest terms with a positive denominator
Rat(n, d) ==
    LET g == Gcd(Abs(n), Abs(d))
        s == IF d < 0 THEN -1 ELSE 1
    IN  [k |-> "num", n |-> s * (n \div g), d |-> s * (d \div g)]

Num(n) == [k |-> "num", n |-> n, d |-> 1]
NaN    == [k |-> "nan", n |-> 0, d |-> 1]
Inf    == [k |-> "inf", n |-> 0, d |-> 1]
NInf   == [k |-> "ninf", n |-> 0, d |-> 1]
None   == [k |-> "none", n |-> 0, d |-> 1]

\* pd.Series(): the record main.py passes for a ticker without fundamentals
NoFundamentals == [key \in {} |-> None]

IsNum(x) == x.k = "num"

\* a / b on two numpy floats holding the integers a and b: a zero divisor
\* gives inf or nan (a RuntimeWarning), never an exception
FDiv(a, b) ==
    IF b # 0 THEN Rat(a, b)
    ELSE IF a = 0 THEN NaN
    ELSE IF a > 0 THEN Inf ELSE NInf

\* x * c and x / c for a float x and a positive integer c
FScale(x, c) == IF IsNum(x) THEN Rat(x.n * c, x.d) ELSE x
FOver(x, c)  == IF IsNum(x) THEN Rat(x.n, x.d * c) ELSE x

FNeg(x) ==
    CASE x.k = "num"  -> Rat(-x.n, x.d)
      [] x.k = "inf"  -> NInf
      [] x.k = "ninf" -> Inf
      [] OTHER        -> x

FAdd(x, y) ==
    IF IsNum(x) /\ IsNum(y) THEN Rat(x.n * y.d + y.n * x.d, x.d * y.d)
    ELSE IF x.k = "nan" \/ y.k = "nan" THEN NaN
    ELSE IF IsNum(x) THEN y
    ELSE IF IsNum(y) THEN x
    ELSE IF x.k = y.k THEN x ELSE NaN

FSub(x, y) == FAdd(x, FNeg(y))

\* x * y for floats of which y is a finite, positive number
FMulPos(x, y) == IF IsNum(x) THEN Rat(x.n * y.n, x.d * y.d) ELSE x

Sign(x) ==
    CASE x.k = "inf"  -> 1
      [] x.k = "ninf" -> -1
      [] OTHER        -> IF x.n > 0 THEN 1 ELSE IF x.n < 0 THEN -1 ELSE 0

\* x * y
FMul(x, y) ==
    IF IsNum(x) /\ IsNum(y) THEN Rat(x.n * y.n, x.d * y.d)
    ELSE IF x.k = "nan" \/ y.k = "nan" THEN NaN
    ELSE IF Sign(x) * Sign(y) = 0 THEN NaN
    ELSE IF Sign(x) * Sign(y) > 0 THEN Inf ELSE NInf

\* x / y on floats: a zero divisor gives inf or nan, as numpy does
FDivF(x, y) ==
    IF IsNum(x) /\ IsNum(y)
    THEN IF y.n # 0 THEN Rat(x.n * y.d, x.d * y.n)
         ELSE IF x.n = 0 THEN NaN ELSE IF x.n > 0 THEN Inf ELSE NInf
    ELSE IF x.k = "nan" \/ y.k = "nan" THEN NaN
    ELSE IF ~IsNum(x) /\ ~IsNum(y) THEN NaN
    ELSE IF IsNum(x) THEN Num(0)
    ELSE IF Sign(x) * Sign(y) >= 0 THEN x ELSE FNeg(x)

\* x < y, x <= y: every comparison with nan is false
FLt(x, y) ==
    CASE x.k = "nan" \/ y.k = "nan" -> FALSE
      [] IsNum(x) /\ IsNum(y)       -> x.n * y.d < y.n * x.d
      [] x.k = "ninf"               -> y.k # "ninf"
      [] y.k = "inf"                -> x.k # "inf"
      [] OTHER                      -> FALSE

FEq(x, y) ==
    CASE x.k = "nan" \/ y.k = "nan" -> FALSE
      [] IsNum(x) /\ IsNum(y)       -> x.n * y.d = y.n * x.d
      [] OTHER                      -> x.k = y.k

FLe(x, y) == FLt(x, y) \/ FEq(x, y)
FGt(x, y) == FLt(y, x)
FGe(x, y) == FLe(y, x)

FAbs(x) ==
    CASE x.k = "num"  -> Rat(Abs(x.n), x.d)
      [] x.k = "ninf" -> Inf
      [] OTHER        -> x

\* Python's builtin min(a, b) and max(a, b): the first argument unless the
\* second compares strictly smaller (larger); so min(100.0, nan) is 100.0
PyMin(a, b) == IF FLt(b, a) THEN b ELSE a
PyMax(a, b) == IF FGt(b, a) THEN b ELSE a

Pow10(nd) == IF nd = 0 THEN 1 ELSE IF nd = 1 THEN 10 ELSE 100

\* Python's round(x, nd): to the nearest multiple of 10^-nd, a tie going to
\* the even digit; inf and nan are returned as they are
Round(x, nd) ==
    IF ~IsNum(x) THEN x
    ELSE LET s == Pow10(nd)
             q == (x.n * s) \div x.d
             r == (x.n * s) - q * x.d
         IN  IF 2 * r < x.d THEN Rat(q, s)
             ELSE IF 2 * r > x.d THEN Rat(q + 1, s)
             ELSE IF q % 2 = 0 THEN Rat(q, s) ELSE Rat(q + 1, s)

----------------------------------------------------------------------------
(* The price series *)

Bar(o, h, l, c, w) == [Open |-> o, High |-> h, Low |-> l, Close |-> c, Week |-> w]

\* ohlcv[col].iloc[idx] for a 0-based idx
Close(s, idx) == s[idx + 1].Close
Low(s, idx)   == s[idx + 1].Low
High(s, idx)  == s[idx + 1].High
Open(s, idx)  == s[idx + 1].Open

\* close.rolling(p).mean().iloc[idx] is RollSum(s, p, idx) / p, and is
\* defined (not nan) only from index p-1 on
RECURSIVE SumClose(_, _, _)
SumClose(s, a, b) ==
    IF a > b THEN 0
    ELSE IF a = b THEN Close(s, a)
    ELSE SumClose(s, a, (a + b) \div 2) + SumClose(s, ((a + b) \div 2) + 1, b)

RollSum(s, p, idx) == SumClose(s, idx - p + 1, idx)

MaDefined(p, idx) == idx >= p - 1

Ma(s, p, idx) == IF MaDefined(p, idx) THEN Rat(RollSum(s, p, idx), p) ELSE NaN

----------------------------------------------------------------------------
(* backtest/ma_sensitivity.py *)

\* (exit_price - entry_price) / entry_price * 100
ReturnPct(exit_price, entry_price) ==
    FScale(FDiv(exit_price - entry_price, entry_price), 100)

_bounce_return(s, touch_idx, hold_days) ==
    LET exit_idx == touch_idx + hold_days
    IN  IF exit_idx >= Len(s) THEN None
        ELSE ReturnPct(Close(s, exit_idx), Close(s, touch_idx))

\* ohlcv["High"].iloc[a : b + 1].max()
RECURSIVE MaxHigh(_, _, _)
MaxHigh(s, a, b) ==
    IF a = b THEN High(s, a)
    ELSE LET mid == (a + b) \div 2
             x   == MaxHigh(s, a, mid)
             y   == MaxHigh(s, mid + 1, b)
         IN  IF y > x THEN y ELSE x

_bounce_max_return(s, touch_idx, hold_days) ==
    LET exit_idx == touch_idx + hold_days
    IN  IF exit_idx >= Len(s) THEN None
        ELSE ReturnPct(MaxHigh(s, touch_idx + 1, exit_idx), Close(s, touch_idx))

\* STRATEGIES.get(strategy, _bounce_return)
StrategyFn(strategy, s, touch_idx, hold_days) ==
    IF strategy = "max_return" THEN _bounce_max_return(s, touch_idx, hold_days)
    ELSE _bounce_return(s, touch_idx, hold_days)

\* sorted(ma_periods)
RECURSIVE Insert(_, _)
Insert(x, sq) ==
    IF sq = <<>> THEN <<x>>
    ELSE IF x <= Head(sq) THEN <<x>> \o sq
    ELSE <<Head(sq)>> \o Insert(x, Tail(sq))

RECURSIVE Sorted(_)
Sorted(sq) == IF sq = <<>> THEN <<>> ELSE Insert(Head(sq), Sorted(Tail(sq)))

\* max(ma_periods)
RECURSIVE MaxOf(_)
MaxOf(sq) ==
    IF Len(sq) = 1 THEN sq[1]
    ELSE LET m == MaxOf(Tail(sq)) IN IF sq[1] > m THEN sq[1] ELSE m

\* min_period = max(max(ma_periods), trend_ma)
MinPeriod(a) ==
    IF MaxOf(a.ma_periods) > a.trend_ma THEN MaxOf(a.ma_periods) ELSE a.trend_ma

WarmupMargin == 50
StartMargin  == 10

\* a warmup gate that lets a series one bar short through
TooShortOffByOne(s, a) == Len(s) < MinPeriod(a) + WarmupMargin - 1

\* len(ohlcv) < min_period + 50
TooShort(s, a) == Len(s) < MinPeriod(a) + WarmupMargin

\* a walk that starts ten bars later
StartIdxLate(a) == MinPeriod(a) + StartMargin + 10

StartIdx(a)  == MinPeriod(a) + StartMargin
\* a walk that also visits the bar at len(ohlcv) - hold_days
EndIdxInclusive(s, a) == Len(s) - a.hold_days + 1

EndIdx(s, a) == Len(s) - a.hold_days

\* an alignment that accepts equal neighbours
AlignedNonStrict(s, a, idx) ==
    LET sorted_periods == Sorted(a.ma_periods)
        n == Len(sorted_periods)
    IN  /\ \A j \in 1..(n - 1) :
              FGe(Ma(s, sorted_periods[j], idx), Ma(s, sorted_periods[j + 1], idx))
        /\ FGe(Ma(s, sorted_periods[n], idx), Ma(s, a.trend_ma, idx))

\* ma_values[j] > ma_values[j + 1] for every j, and ma_values[-1] > trend_val
Aligned(s, a, idx) ==
    LET sorted_periods == Sorted(a.ma_periods)
        n == Len(sorted_periods)
    IN  /\ \A j \in 1..(n - 1) :
              FGt(Ma(s, sorted_periods[j], idx), Ma(s, sorted_periods[j + 1], idx))
        /\ FGt(Ma(s, sorted_periods[n], idx), Ma(s, a.trend_ma, idx))

\* dist_pct = (low_val - ma_val) / ma_val * 100 for the MA of period p, whose
\* value is ma_sum / p
DistPct(x, ma_sum, p) == FScale(FDiv(x * p - ma_sum, ma_sum), 100)

\* a symmetric band around the MA: piercing below no longer counts
TouchPredSymmetric(dist_pct, touch_pct) == FLe(FAbs(dist_pct), touch_pct)

\* abs(dist_pct) <= touch_pct or dist_pct <= 0
TouchPred(dist_pct, touch_pct) ==
    FLe(FAbs(dist_pct), touch_pct) \/ FLe(dist_pct, Num(0))

BtTouch(s, a, p, idx) ==
    TouchPred(DistPct(Low(s, idx), RollSum(s, p, idx), p), a.touch_pct)

\* the touch loop visiting the periods in the order they were passed
TouchOrderAsPassed(a) == a.ma_periods

\* the periods the touch loop visits, in its order
TouchOrder(a) == Sorted(a.ma_periods)

\* the last period of the order whose MA the low touches (0: no touch)
RECURSIVE FirstTouchSlowest(_, _, _, _)
FirstTouchSlowest(s, a, order, idx) ==
    IF order = <<>> THEN 0
    ELSE IF BtTouch(s, a, order[Len(order)], idx) THEN order[Len(order)]
    ELSE FirstTouchSlowest(s, a, SubSeq(order, 1, Len(order) - 1), idx)

\* the period at which the loop over sorted_periods breaks (0: no touch)
RECURSIVE FirstTouch(_, _, _, _)
FirstTouch(s, a, order, idx) ==
    IF order = <<>> THEN 0
    ELSE IF BtTouch(s, a, Head(order), idx) THEN Head(order)
    ELSE FirstTouch(s, a, Tail(order), idx)

TouchEvent(idx, p, ret) ==
    [idx |-> idx, ma_period |-> p, return_pct |-> ret, win |-> FGt(ret, Num(0))]

\* a cooldown one bar longer: i - last_touch_idx <= cooldown
InCooldownInclusive(a, idx, last) == idx - last <= a.cooldown

\* i - last_touch_idx < cooldown
InCooldown(a, idx, last) == idx - last < a.cooldown

\* the canonical all-zero result
_empty_result(ma_periods) ==
    [win_rate       |-> Num(0),
     avg_return     |-> Num(0),
     total_touches  |-> 0,
     backtest_score |-> Num(0),
     ma_win_rate    |-> [p \in {ma_periods[j] : j \in 1..Len(ma_periods)} |-> Num(0)],
     ma_touches     |-> [p \in {ma_periods[j] : j \in 1..Len(ma_periods)} |-> 0]]

\* sum(1 for t in touches if t["win"])
RECURSIVE Wins(_)
Wins(ts) ==
    IF ts = <<>> THEN 0 ELSE (IF Head(ts).win THEN 1 ELSE 0) + Wins(Tail(ts))

\* sum(returns)
RECURSIVE SumReturns(_)
SumReturns(ts) ==
    IF ts = <<>> THEN Num(0) ELSE FAdd(SumReturns(Tail(ts)), Head(ts).return_pct)

\* [t for t in touches if t["ma_period"] == p]
RECURSIVE OfPeriod(_, _)
OfPeriod(ts, p) ==
    IF ts = <<>> THEN <<>>
    ELSE IF Head(ts).ma_period = p THEN <<Head(ts)>> \o OfPeriod(Tail(ts), p)
    ELSE OfPeriod(Tail(ts), p)

\* win_rate = wins / total * 100
WinRate(ts) == Rat(Wins(ts) * 100, Len(ts))

\* avg_return = sum(returns) / total
AvgReturn(ts) == FOver(SumReturns(ts), Len(ts))

\* a win-rate score that falls as the win rate rises
WrScoreInverted(win_rate) ==
    PyMin(Num(50), PyMax(Num(0), FScale(FOver(FSub(Num(100), win_rate), 40), 50)))

\* wr_score = min(50, max(0, (win_rate - 40) / 40 * 50))
WrScore(win_rate) ==
    PyMin(Num(50), PyMax(Num(0), FScale(FOver(FSub(win_rate, Num(40)), 40), 50)))

\* a return score without its upper cap
RetScoreUncapped(avg_return) ==
    PyMax(Num(0), FScale(FOver(avg_return, 2), 50))

\* ret_score = min(50, max(0, avg_return / 2 * 50))
RetScore(avg_return) ==
    PyMin(Num(50), PyMax(Num(0), FScale(FOver(avg_return, 2), 50)))

FullConfidence == 10

\* a confidence that is full only from 20 events on
ConfidenceOfTwenty(total) == PyMin(Num(1), Rat(total, 20))

\* confidence = min(1.0, total / 10)
Confidence(total) == PyMin(Num(1), Rat(total, FullConfidence))

\* round((wr_score + ret_score) * confidence, 1)
BacktestScore(win_rate, avg_return, total) ==
    Round(FMulPos(FAdd(WrScore(win_rate), RetScore(avg_return)), Confidence(total)), 1)

_compute_metrics(ts, ma_periods) ==
    IF ts = <<>> THEN _empty_result(ma_periods)
    ELSE
    [win_rate       |-> Round(WinRate(ts), 1),
     avg_return     |-> Round(AvgReturn(ts), 2),
     total_touches  |-> Len(ts),
     backtest_score |-> BacktestScore(WinRate(ts), AvgReturn(ts), Len(ts)),
     ma_win_rate    |-> [p \in {ma_periods[j] : j \in 1..Len(ma_periods)} |->
                            IF OfPeriod(ts, p) # <<>>
                            THEN Round(WinRate(OfPeriod(ts, p)), 1) ELSE Num(0)],
     ma_touches     |-> [p \in {ma_periods[j] : j \in 1..Len(ma_periods)} |->
                            Len(OfPeriod(ts, p))]]

----------------------------------------------------------------------------
(* backtest_ma_sensitivity as a process: the call, one loop iteration per
   step, the return *)

\* the defaults of backtest_ma_sensitivity's parameters
BtDefaults ==
    [ma_periods |-> <<10, 20>>, trend_ma |-> 50, touch_pct |-> Num(1),
     hold_days |-> 5, cooldown |-> 3, strategy |-> "bounce"]

\* the arguments of the running call: the scan command passes only the
\* series, so every parameter has its default
BtArguments == IF mode = "scan" THEN BtDefaults ELSE args

\* lines 70-88: the warmup gate and the loop's initial state
\* an entry that keeps the events of the previous call
BtEnterKeepsEvents ==
    /\ pc = "bt_call"
    /\ IF TooShort(ohlcv, BtArguments)
       THEN /\ result' = _empty_result(BtArguments.ma_periods)
            /\ pc' = "bt_done"
            /\ UNCHANGED <<i, last_touch_idx, touches>>
       ELSE /\ touches' = touches
            /\ last_touch_idx' = -BtArguments.cooldown - 1
            /\ i' = StartIdx(BtArguments)
            /\ pc' = "bt_loop"
            /\ UNCHANGED result
    /\ UNCHANGED <<fundamentals, mode, ohlcv, args, loc>>

BtEnter ==
    /\ pc = "bt_call"
    /\ IF TooShort(ohlcv, BtArguments)
       THEN /\ result' = _empty_result(BtArguments.ma_periods)
            /\ pc' = "bt_done"
            /\ UNCHANGED <<i, last_touch_idx, touches>>
       ELSE /\ touches' = <<>>
            /\ last_touch_idx' = -BtArguments.cooldown - 1
            /\ i' = StartIdx(BtArguments)
            /\ pc' = "bt_loop"
            /\ UNCHANGED result
    /\ UNCHANGED <<fundamentals, mode, ohlcv, args, loc>>

\* what one iteration appends to touches (lines 91-123): nothing when the bar
\* is inside the cooldown, not aligned, touches no MA, or the strategy
\* returns None
NewEvents(s, a, idx, last) ==
    IF InCooldown(a, idx, last) THEN <<>>
    ELSE IF ~Aligned(s, a, idx) THEN <<>>
    ELSE LET p == FirstTouch(s, a, TouchOrder(a), idx)
         IN  IF p = 0 THEN <<>>
             ELSE LET ret == StrategyFn(a.strategy, s, idx, a.hold_days)
                  IN  IF ret = None THEN <<>>
                      ELSE <<TouchEvent(idx, p, ret)>>

\* the iteration with last_touch_idx updated at every evaluated bar
BtLoopMarksEveryBar ==
    /\ pc = "bt_loop"
    /\ i < EndIdx(ohlcv, BtArguments)
    /\ LET new == NewEvents(ohlcv, BtArguments, i, last_touch_idx)
       IN  /\ touches' = touches \o new
           /\ last_touch_idx' = IF InCooldown(BtArguments, i, last_touch_idx)
                                THEN last_touch_idx ELSE i
    /\ i' = i + 1
    /\ UNCHANGED <<fundamentals, mode, pc, ohlcv, args, result, loc>>

\* lines 90-123: the iteration for bar i
BtLoop ==
    /\ pc = "bt_loop"
    /\ i < EndIdx(ohlcv, BtArguments)
    /\ LET new == NewEvents(ohlcv, BtArguments, i, last_touch_idx)
       IN  /\ touches' = touches \o new
           /\ last_touch_idx' = IF new # <<>> THEN i ELSE last_touch_idx
    /\ i' = i + 1
    /\ UNCHANGED <<fundamentals, mode, pc, ohlcv, args, result, loc>>

\* line 125: the loop is over
BtReturn ==
    /\ pc = "bt_loop"
    /\ i >= EndIdx(ohlcv, BtArguments)
    /\ result' = _compute_metrics(touches, BtArguments.ma_periods)
    /\ pc' = "bt_done"
    /\ UNCHANGED <<fundamentals, mode, ohlcv, args, i, last_touch_idx, touches, loc>>

----------------------------------------------------------------------------
(* The series and arguments the backtest is run on *)

BasePrice == 20
Step      == 4

\* the bar that follows a bar closing at prev
\*   U  gaps up and stays there       D  rises after a dip below prev
\*   F  falls
\*   R  rises by one from prev        G  gaps up by one and stays there
\*   H  a hammer: dips two below prev and closes one above it
\*   L  falls by one                  J  gaps up by two and closes up three
\*   C  falls by eight
\*   X  rises to five times prev      Z  falls to a close of zero
\*   V  gaps up by two and stays there
\*   K  a hammer above prev: opens six above, dips to four above, closes
\*      seven above
\*   W  opens at prev, dips one below, reaches four above, closes two above
ShapeBar(sh, prev, w) ==
    CASE sh = "U" -> Bar(prev + Step, prev + Step, prev + Step, prev + Step, w)
      [] sh = "D" -> Bar(prev, prev + Step + 2, prev - 2, prev + Step, w)
      [] sh = "F" -> Bar(prev, prev, prev - Step, prev - Step, w)
      [] sh = "R" -> Bar(prev, prev + 1, prev, prev + 1, w)
      [] sh = "G" -> Bar(prev + 1, prev + 1, prev + 1, prev + 1, w)
      [] sh = "H" -> Bar(prev, prev + 1, prev - 2, prev + 1, w)
      [] sh = "L" -> Bar(prev, prev, prev - 1, prev - 1, w)
      [] sh = "J" -> Bar(prev + 2, prev + 3, prev + 2, prev + 3, w)
      [] sh = "C" -> Bar(prev, prev, prev - 8, prev - 8, w)
      [] sh = "X" -> Bar(prev, 5 * prev, prev, 5 * prev, w)
      [] sh = "Z" -> Bar(prev, prev, 0, 0, w)
      [] sh = "V" -> Bar(prev + 2, prev + 2, prev + 2, prev + 2, w)
      [] sh = "K" -> Bar(prev + 6, prev + 7, prev + 4, prev + 7, w)
      [] sh = "W" -> Bar(prev, prev + 4, prev - 1, prev + 2, w)
      [] OTHER    -> Bar(prev, prev, prev, prev, w)

DaysPerWeek == 5

RECURSIVE Extend(_, _)
Extend(s, shapes) ==
    IF shapes = <<>> THEN s
    ELSE Extend(Append(s, ShapeBar(Head(shapes), s[Len(s)].Close,
                                   Len(s) \div DaysPerWeek)),
                Tail(shapes))

FlatBars(n) == [j \in 1..n |-> Bar(BasePrice, BasePrice, BasePrice, BasePrice,
                                   (j - 1) \div DaysPerWeek)]

TailLen    == 4
SuffixLen  == 2
BtPrefix   == {47, 48}

BtShapes == {"U", "D", "F"}

BtSeries ==
    { Extend(FlatBars(n), t \o [j \in 1..SuffixLen |-> "="]) :
        n \in BtPrefix, t \in [1..TailLen -> BtShapes] }

BtArgs ==
    { [ma_periods |-> ps[1], trend_ma |-> 4, touch_pct |-> Num(tp),
       hold_days |-> hd, cooldown |-> cd, strategy |-> ps[2]] :
        ps \in {<< <<2, 3>>, "bounce" >>, << <<3, 2>>, "max_return" >>,
                << <<2, 3>>, "momentum" >>},
        tp \in {0, 10}, hd \in {1, 2}, cd \in {1, 2, 3} }

InitBacktest ==
    /\ mode = "backtest" /\ pc = "bt_call"
    /\ ohlcv \in BtSeries
    /\ args \in BtArgs
    /\ i = 0 /\ last_touch_idx = 0 /\ touches = <<>>
    /\ result = None
    /\ loc = <<>>
    /\ fundamentals = NoFundamentals

NextBacktest == BtEnter \/ BtLoop \/ BtReturn

SpecBacktest == InitBacktest /\ [][NextBacktest]_vars

----------------------------------------------------------------------------
(* Claims about the walk-forward loop *)

Running == mode = "backtest" /\ pc \in {"bt_loop", "bt_done"} /\ ~TooShort(ohlcv, args)

\* bar idx has been visited by the loop
Visited(idx) == Running /\ StartIdx(args) <= idx /\ idx < i

\* bar idx satisfies alignment and the touch predicate of some configured MA
Qualifies(idx) ==
    /\ Aligned(ohlcv, args, idx)
    /\ \E j \in 1..Len(args.ma_periods) : BtTouch(ohlcv, args, args.ma_periods[j], idx)

EventsAt(idx) == {k \in 1..Len(touches) : touches[k].idx = idx}

\* C1: two recorded events are at least `cooldown` bars apart; of two
\* qualifying bars cooldown-1 apart, the first not inside an earlier event's
\* cooldown, exactly one is recorded, and of two such bars cooldown apart
\* both are recorded.
C1_Cooldown ==
    Running =>
      /\ \A j, k \in 1..Len(touches) :
            j < k => touches[k].idx - touches[j].idx >= args.cooldown
      /\ \A b1 \in StartIdx(args)..(i - 1) :
            ( /\ Qualifies(b1)
              /\ \A e \in 1..Len(touches) :
                    ~(touches[e].idx < b1 /\ b1 - touches[e].idx < args.cooldown) )
            => /\ \A b2 \in {b1 + args.cooldown - 1} :
                    (Visited(b2) /\ Qualifies(b2))
                    => Cardinality(EventsAt(b1) \cup EventsAt(b2)) = 1
               /\ \A b2 \in {b1 + args.cooldown} :
                    (Visited(b2) /\ Qualifies(b2))
                    => /\ Cardinality(EventsAt(b1)) = 1
                       /\ Cardinality(EventsAt(b2)) = 1

\* a run with cooldown >= 2 in which a qualifying bar was counted, the
\* qualifying bar cooldown-1 later was suppressed and the one cooldown later
\* was counted
C1_Witness ==
    /\ Running /\ pc = "bt_done" /\ args.cooldown >= 2
    /\ \E b1 \in StartIdx(args)..(i - 1) :
          /\ Qualifies(b1) /\ EventsAt(b1) # {}
          /\ Visited(b1 + args.cooldown - 1) /\ Qualifies(b1 + args.cooldown - 1)
          /\ EventsAt(b1 + args.cooldown - 1) = {}
          /\ Visited(b1 + args.cooldown) /\ Qualifies(b1 + args.cooldown)
          /\ EventsAt(b1 + args.cooldown) # {}

\* the configured periods whose touch predicate holds on bar idx
TouchedPeriods(idx) ==
    {args.ma_periods[j] : j \in {j \in 1..Len(args.ma_periods) :
                                   BtTouch(ohlcv, args, args.ma_periods[j], idx)}}

\* C2: a bar yields at most one event, and the event is attributed to the
\* smallest configured period whose touch predicate holds on that bar,
\* whatever the order of ma_periods.
C2_FastestMa ==
    Running =>
      \A k \in 1..Len(touches) :
         /\ EventsAt(touches[k].idx) = {k}
         /\ touches[k].ma_period \in TouchedPeriods(touches[k].idx)
         /\ \A p \in TouchedPeriods(touches[k].idx) : touches[k].ma_period <= p

\* an event on a bar touching two MAs, with ma_periods passed in descending order
C2_Witness ==
    /\ Running /\ args.ma_periods[1] > args.ma_periods[2]
    /\ \E k \in 1..Len(touches) :
          /\ Cardinality(TouchedPeriods(touches[k].idx)) = 2
          /\ touches[k].ma_period = args.ma_periods[2]

----------------------------------------------------------------------------
(* _compute_metrics on its own: two calls, on two event lists *)

\* the first call, and after MxSecond the second
MxCompute ==
    /\ mode = "metrics" /\ pc = "call"
    /\ result' = _compute_metrics(touches, args.ma_periods)
    /\ pc' = "done"
    /\ UNCHANGED <<fundamentals, mode, ohlcv, args, i, last_touch_idx, touches, loc>>

\* the caller keeps the first result and calls again with the other list
MxSecond ==
    /\ mode = "metrics" /\ pc = "done" /\ loc.prev = None
    /\ loc' = [other |-> touches, prev |-> result]
    /\ touches' = loc.other
    /\ result' = None
    /\ pc' = "call"
    /\ UNCHANGED <<fundamentals, mode, ohlcv, args, i, last_touch_idx>>

MaxEvents == 10

\* the returns (in percent) an event of the lists has
MxReturns == <<Num(-2), Rat(1, 2), Num(3)>>

\* the list of c[1] events returning MxReturns[1], then c[2] events returning
\* MxReturns[2], ...: _compute_metrics reads a list through sums and counts
RECURSIVE Repeat(_, _)
Repeat(x, n) == IF n = 0 THEN <<>> ELSE <<x>> \o Repeat(x, n - 1)

Renumber(ts) == [j \in 1..Len(ts) |-> [ts[j] EXCEPT !.idx = j - 1]]

EventList(c) ==
    Renumber(Repeat(TouchEvent(0, 2, MxReturns[1]), c[1])
             \o Repeat(TouchEvent(0, 3, MxReturns[2]), c[2])
             \o Repeat(TouchEvent(0, 2, MxReturns[3]), c[3]))

EventLists(n) ==
    { EventList(c) : c \in {c \in [1..3 -> 0..n] : c[1] + c[2] + c[3] = n} }

InitMetrics ==
    /\ mode = "metrics" /\ pc = "call"
    /\ ohlcv = <<>>
    /\ args = [ma_periods |-> <<2, 3>>]
    /\ i = 0 /\ last_touch_idx = 0
    /\ \E n \in 0..MaxEvents :
          /\ touches \in EventLists(n)
          /\ \E m \in {n, 2 * n} \cap (0..MaxEvents) :
                \E other \in EventLists(m) : loc = [other |-> other, prev |-> None]
    /\ result = None
    /\ fundamentals = NoFundamentals

NextMetrics == MxCompute \/ MxSecond

SpecMetrics == InitMetrics /\ [][NextMetrics]_vars

\* both calls have returned: loc.other is the first list and loc.prev its
\* result, touches is the second list and result its result
BothDone == mode = "metrics" /\ pc = "done" /\ loc.prev # None

SameRates(a, b) ==
    /\ FEq(WinRate(a), WinRate(b))
    /\ FEq(AvgReturn(a), AvgReturn(b))

\* C3 as stated: with the same win_rate and avg_return, the score of 5 events
\* is exactly half the score of 10 events.
C3_ExactHalf ==
    ( /\ BothDone /\ Len(loc.other) = 5 /\ Len(touches) = 10
      /\ SameRates(loc.other, touches) )
    => FEq(FScale(loc.prev.backtest_score, 2), result.backtest_score)

\* C3 amended: the two reported scores are each rounded to one decimal, so
\* the score of 5 events is half the score of 10 events to within 0.05.
C3_HalfWithinRounding ==
    ( /\ BothDone /\ Len(loc.other) = 5 /\ Len(touches) = 10
      /\ SameRates(loc.other, touches) )
    => /\ FLe(FAbs(FSub(FScale(loc.prev.backtest_score, 2), result.backtest_score)),
              Rat(1, 10))
       /\ loc.prev.backtest_score
            = Round(FOver(FAdd(WrScore(WinRate(touches)), RetScore(AvgReturn(touches))), 2), 1)

\* 5 and 10 events with the same rates whose reported scores are not
\* exactly in the ratio 1 : 2
C3_Witness ==
    /\ BothDone /\ Len(loc.other) = 5 /\ Len(touches) = 10
    /\ SameRates(loc.other, touches)
    /\ FGt(loc.prev.backtest_score, Num(0))
    /\ ~FEq(FScale(loc.prev.backtest_score, 2), result.backtest_score)

\* C4: with total_events fixed at 10 or more and avg_return fixed, a larger
\* win_rate never gives a smaller backtest_score.
C4_MonotoneInWinRate ==
    ( /\ BothDone /\ Len(touches) >= FullConfidence /\ Len(loc.other) = Len(touches)
      /\ FEq(AvgReturn(loc.other), AvgReturn(touches))
      /\ FGt(WinRate(touches), WinRate(loc.other)) )
    => FGe(result.backtest_score, loc.prev.backtest_score)

\* two lists of 10 events with the same avg_return, the one with the larger
\* win_rate scoring strictly higher
C4_Witness ==
    /\ BothDone /\ Len(touches) >= FullConfidence /\ Len(loc.other) = Len(touches)
    /\ FEq(AvgReturn(loc.other), AvgReturn(touches))
    /\ FGt(WinRate(touches), WinRate(loc.other))
    /\ FGt(result.backtest_score, loc.prev.backtest_score)

----------------------------------------------------------------------------
(* The return strategies on their own *)

StApply ==
    /\ mode = "strategy" /\ pc = "call"
    /\ result' = [bounce     |-> _bounce_return(ohlcv, args.touch_idx, args.hold_days),
                  max_return |-> _bounce_max_return(ohlcv, args.touch_idx, args.hold_days)]
    /\ pc' = "done"
    /\ UNCHANGED <<fundamentals, mode, ohlcv, args, i, last_touch_idx, touches, loc>>

StLen == 3

\* bars with low <= close <= high; a close of 0 is the upstream-data anomaly
StBars ==
    { b \in { Bar(c, h, c, c, 0) : c \in {0, 10, 20}, h \in {0, 10, 20, 30} } :
        b.High >= b.Close }

InitStrategy ==
    /\ mode = "strategy" /\ pc = "call"
    /\ ohlcv \in [1..StLen -> StBars]
    /\ \E t \in 0..(StLen - 1), h \in 1..StLen :
          args = [touch_idx |-> t, hold_days |-> h]
    /\ i = 0 /\ last_touch_idx = 0 /\ touches = <<>>
    /\ result = None
    /\ loc = <<>>
    /\ fundamentals = NoFundamentals

NextStrategy == StApply

SpecStrategy == InitStrategy /\ [][NextStrategy]_vars

StDone == mode = "strategy" /\ pc = "done"

\* C5: on bars with high >= close, whenever both strategies return a value
\* the max_return value is >= the bounce value.
C5_MaxGeBounce ==
    (StDone /\ result.bounce # None /\ result.max_return # None)
    => FGe(result.max_return, result.bounce)

\* the same on a touch bar whose close is positive
C5_PositiveEntry ==
    ( /\ StDone /\ result.bounce # None /\ result.max_return # None
      /\ Close(ohlcv, args.touch_idx) > 0 )
    => FGe(result.max_return, result.bounce)

----------------------------------------------------------------------------
(* scanners/base.py *)

IsNone(r) == "k" \in DOMAIN r /\ r.k = "none"

\* a string value
Str(v) == [k |-> "str", v |-> v]

\* an exception leaving the running function
Raised(exc) == [k |-> "raised", exc |-> exc]

\* fundamentals.get(key, default): the stored value when the key is present,
\* whatever it is
FundGet(f, key, default) == IF key \in DOMAIN f THEN f[key] ELSE default

\* fundamentals.get("sector", "N/A")
Sector(f) == FundGet(f, "sector", Str("N/A"))

\* fundamentals.get("marketCap", 0) / 1e9 raises TypeError on None
CapRaises(f) == IsNone(FundGet(f, "marketCap", Num(0)))

\* round(fundamentals.get("marketCap", 0) / 1e9, 1)
CapBillions(f) == Round(FOver(FundGet(f, "marketCap", Num(0)), 1000000000), 1)

\* a ScanResult that keeps the raw score
ScanResultUnclamped(ticker, score, signal, details) ==
    [ticker |-> ticker, score |-> score, signal |-> signal, details |-> details]

\* ScanResult(ticker, score, signal, details); __post_init__ clamps the score:
\* self.score = max(0.0, min(100.0, self.score))
ScanResult(ticker, score, signal, details) ==
    [ticker  |-> ticker,
     score   |-> PyMax(Num(0), PyMin(Num(100), score)),
     signal  |-> signal,
     details |-> details]

\* the last row of each calendar week that has rows
WeekEnds(s) == {j \in 1..Len(s) : j = Len(s) \/ s[j + 1].Week # s[j].Week}

\* the first row of the week whose last row is e
WeekStart(s, e) ==
    CHOOSE j \in 1..e : /\ \A x \in j..e : s[x].Week = s[e].Week
                        /\ j = 1 \/ s[j - 1].Week # s[e].Week

\* resample_ohlcv(daily_df, "W"): one bar per calendar week that has rows,
\* aggregating Open first, High max, Low min, Close last
resample_ohlcv(s) ==
    LET ends     == WeekEnds(s)
        EndOf(k) == CHOOSE e \in ends : Cardinality({x \in ends : x <= e}) = k
    IN  [k \in 1..Cardinality(ends) |->
            LET e    == EndOf(k)
                rows == WeekStart(s, e)..e
            IN  Bar(s[WeekStart(s, e)].Open,
                    CHOOSE h \in {s[x].High : x \in rows} : \A x \in rows : s[x].High <= h,
                    CHOOSE l \in {s[x].Low : x \in rows} : \A x \in rows : s[x].Low >= l,
                    s[e].Close, s[e].Week)]

\* close.rolling(p).mean().iloc[-1]
LastMa(s, p) == IF Len(s) = 0 THEN NaN ELSE Ma(s, p, Len(s) - 1)

\* (x - ma_val) / ma_val * 100 with the rolling mean of period p at idx
DistToMa(s, x, p, idx) ==
    IF MaDefined(p, idx) THEN DistPct(x, RollSum(s, p, idx), p) ELSE NaN

\* a > b > c
Stacked(a, b, c) == FGt(a, b) /\ FGt(b, c)

\* the count over the window without its oldest bar, plus one
AlignDaysOneShort(s, pa, pb, pc_, n) ==
    LET from == IF n - 1 > Len(s) THEN 0 ELSE Len(s) - (n - 1)
    IN  1 + Cardinality({idx \in from..(Len(s) - 1) :
            Stacked(Ma(s, pa, idx), Ma(s, pb, idx), Ma(s, pc_, idx))})

\* int(((tail_a > tail_b) & (tail_b > tail_c)).sum()) over .tail(n)
AlignDays(s, pa, pb, pc_, n) ==
    LET from == IF n > Len(s) THEN 0 ELSE Len(s) - n
    IN  Cardinality({idx \in from..(Len(s) - 1) :
            Stacked(Ma(s, pa, idx), Ma(s, pb, idx), Ma(s, pc_, idx))})

----------------------------------------------------------------------------
(* scanners/entry_point.py *)

\* a detection with the standard regime only
HammerStandardOnly(a, o, h, l, c) ==
    LET total_range  == h - l
        body         == Abs(c - o)
        lower_wick   == (IF c < o THEN c ELSE o) - l
        upper_wick   == h - (IF c > o THEN c ELSE o)
    IN  IF total_range <= 0 THEN FALSE
        ELSE /\ FGe(Num(lower_wick), FMul(Num(body), a.wick_body_ratio))
             /\ FLt(Num(upper_wick), FMul(Num(total_range), a.upper_wick_max))

_detect_hammer(a, o, h, l, c) ==
    LET total_range  == h - l
        body         == Abs(c - o)
        body_top     == IF c > o THEN c ELSE o
        body_bottom  == IF c < o THEN c ELSE o
        lower_wick   == body_bottom - l
        upper_wick   == h - body_top
        small_upper  == FLt(Num(upper_wick), FMul(Num(total_range), a.upper_wick_max))
    IN  IF total_range <= 0 THEN FALSE
        ELSE IF FLt(Num(body), FMul(Num(total_range), Rat(5, 100)))
        THEN FGt(Num(lower_wick), FMul(Num(total_range), Rat(6, 10))) /\ small_upper
        ELSE FGe(Num(lower_wick), FMul(Num(body), a.wick_body_ratio)) /\ small_upper

\* the gates of entry_point without the weekly filter
EpGateNoWeekly(s, a) ==
    IF Len(s) < a.d_slow + 20 THEN "length"
    ELSE IF Len(resample_ohlcv(s)) < a.w_mid + 2 THEN "weekly_length"
    ELSE IF ~Stacked(LastMa(s, a.d_fast), LastMa(s, a.d_mid), LastMa(s, a.d_slow))
    THEN "daily"
    ELSE IF FLt(Num(Close(s, Len(s) - 1)), LastMa(s, a.d_mid)) THEN "floor"
    ELSE "pass"

\* lines 99-135: which gate returns None ("pass": none of them)
EpGate(s, a) ==
    LET weekly == resample_ohlcv(s)
        w_mm   == LastMa(weekly, a.w_mid)
        w_last == Num(weekly[Len(weekly)].Close)
        mf_val == LastMa(s, a.d_fast)
        mm_val == LastMa(s, a.d_mid)
        ms_val == LastMa(s, a.d_slow)
    IN  IF Len(s) < a.d_slow + 20 THEN "length"
        ELSE IF Len(weekly) < a.w_mid + 2 THEN "weekly_length"
        ELSE IF ~FGt(w_last, w_mm) THEN "weekly"
        ELSE IF ~Stacked(mf_val, mm_val, ms_val) THEN "daily"
        ELSE IF FLt(Num(Close(s, Len(s) - 1)), mm_val) THEN "floor"
        ELSE "pass"

\* a recency that loses 0.2 a day
EpRecencySlowDecay(ago) == PyMax(Num(0), FSub(Num(1), FMul(Num(ago), Rat(2, 10))))

\* recency = max(0.0, 1.0 - ago * 0.3)
EpRecency(ago) == PyMax(Num(0), FSub(Num(1), FMul(Num(ago), Rat(3, 10))))

\* a proximity without its floor at 0
EpProximityUnfloored(dist_pct, tol, pts) ==
    FMul(FSub(Num(1), FDivF(FAbs(dist_pct), tol)), Num(pts))

\* max(0, (1 - abs(dist_pct) / tol)) * pts
EpProximity(dist_pct, tol, pts) ==
    FMul(PyMax(Num(0), FSub(Num(1), FDivF(FAbs(dist_pct), tol))), Num(pts))

\* abs(low_dist_pct) <= self.touch_pct or low_dist_pct <= 0
LowNearMa(low_dist_pct, touch_pct) ==
    FLe(FAbs(low_dist_pct), touch_pct) \/ FLe(low_dist_pct, Num(0))

NoSignal ==
    [signal |-> "none", score |-> Num(0), ma |-> 0, candle_ago |-> 0,
     low_dist |-> Num(0), close_dist |-> Num(0)]

\* lines 159-209: the body of the inner loop for the bar idx and the MA of
\* period p; best is (best_signal, best_score, best_details) on entry
EpCombo(s, a, idx, ago, p, best) ==
    LET c              == Close(s, idx)
        ma_val         == Ma(s, p, idx)
        close_dist_pct == DistToMa(s, c, p, idx)
        low_dist_pct   == DistToMa(s, Low(s, idx), p, idx)
        is_hammer      == _detect_hammer(a, Open(s, idx), High(s, idx), Low(s, idx), c)
        low_near_ma    == LowNearMa(low_dist_pct, a.touch_pct)
        tol            == PyMax(a.touch_pct, Rat(1, 100))
        recency        == EpRecency(ago)
        Keep(sig, sc)  ==
            IF FGt(sc, best.score)
            THEN [signal |-> sig, score |-> sc, ma |-> p, candle_ago |-> ago,
                  low_dist |-> Round(FAbs(low_dist_pct), 2),
                  close_dist |-> Round(close_dist_pct, 2)]
            ELSE best
    IN  IF p = a.d_mid /\ FLt(Num(c), ma_val) THEN best
        ELSE IF is_hammer /\ low_near_ma
        THEN Keep("HAMMER", FMul(FAdd(Num(40), EpProximity(low_dist_pct, tol, 20)), recency))
        ELSE IF low_near_ma
        THEN Keep("TOUCH", FMul(FAdd(Num(25), EpProximity(low_dist_pct, tol, 15)), recency))
        ELSE IF FLe(FAbs(close_dist_pct), a.approach_pct)
        THEN Keep("APPROACHING",
                  FMul(FAdd(Num(10), EpProximity(close_dist_pct, a.approach_pct, 15)), recency))
        ELSE best

\* lines 142-209: for i in range(-lookback, 0), for each of the fast and the
\* mid MA; k counts the combos already examined
RECURSIVE EpSearch(_, _, _, _)
EpSearch(s, a, k, best) ==
    IF k >= 2 * a.lookback THEN best
    ELSE LET i_  == (k \div 2) - a.lookback
             idx == Len(s) + i_
             ago == -i_ - 1
             p   == IF k % 2 = 0 THEN a.d_fast ELSE a.d_mid
         IN  IF idx < 0 THEN EpSearch(s, a, k + 1, best)
             ELSE EpSearch(s, a, k + 1, EpCombo(s, a, idx, ago, p, best))

\* (a - b) / b * 100 on floats
SpreadPct(a, b) == FMul(FDivF(FSub(a, b), b), Num(100))

\* ohlcv["High"].iloc[-n:].max()
RecentHigh(s, n) == MaxHigh(s, IF n > Len(s) THEN 0 ELSE Len(s) - n, Len(s) - 1)

\* lines 216-241: resistance_bonus
EpResistanceBonus(s) ==
    LET ath                 == MaxHigh(s, 0, Len(s) - 1)
        latest_close        == Close(s, Len(s) - 1)
        pct_from_ath        == FScale(FDiv(ath - latest_close, ath), 100)
        pct_recent_from_ath == FScale(FDiv(ath - RecentHigh(s, 20), ath), 100)
    IN  (IF FLe(pct_from_ath, Num(3)) THEN 20
         ELSE IF FLe(pct_from_ath, Num(5)) THEN 15
         ELSE IF FLe(pct_from_ath, Num(10)) THEN 8
         ELSE 0)
        + (IF FLe(pct_recent_from_ath, Num(2)) THEN 5 ELSE 0)

\* w_last > w_mf > w_mm
EpWeeklyFullAlign(s, a) ==
    LET weekly == resample_ohlcv(s)
    IN  Stacked(Num(weekly[Len(weekly)].Close), LastMa(weekly, a.w_fast),
                LastMa(weekly, a.w_mid))

\* lines 252-256: weekly_bonus
EpWeeklyBonus(s, a) ==
    LET weekly       == resample_ohlcv(s)
        w_spread_pct == SpreadPct(LastMa(weekly, a.w_fast), LastMa(weekly, a.w_mid))
    IN  IF EpWeeklyFullAlign(s, a)
        THEN PyMin(Num(15), FAdd(FMul(w_spread_pct, Num(2)), Num(5)))
        ELSE PyMin(Num(5), PyMax(Num(0), w_spread_pct))

\* lines 243-264: score = min(100.0, best_score) after the bonuses
EpScore(s, a, best) ==
    LET trend_bonus == PyMin(Num(15),
                             FMul(SpreadPct(LastMa(s, a.d_fast), LastMa(s, a.d_slow)), Num(3)))
        latest_green == Close(s, Len(s) - 1) > Open(s, Len(s) - 1)
        best_score  == FAdd(FAdd(FAdd(FAdd(best.score, Num(EpResistanceBonus(s))),
                                      trend_bonus),
                                 EpWeeklyBonus(s, a)),
                            IF latest_green THEN Num(5) ELSE Num(0))
    IN  PyMin(Num(100), best_score)

\* lines 266-271
EpSignal(score) ==
    IF FGe(score, Num(65)) THEN "STRONG_BUY"
    ELSE IF FGe(score, Num(40)) THEN "BUY"
    ELSE "WATCH"

\* lines 273-290
EpResult(s, a, best, f) ==
    LET score == EpScore(s, a, best)
    IN  ScanResult("T", Round(score, 1), EpSignal(score),
                   [entry |-> best.signal, at |-> best.ma,
                    dist |-> Round(best.close_dist, 1), ago |-> best.candle_ago,
                    wk_align |-> IF EpWeeklyFullAlign(s, a) THEN "Y" ELSE "N",
                    sector |-> Sector(f), cap_B |-> CapBillions(f)])

----------------------------------------------------------------------------
(* scanners/strong_pullback.py *)

\* lines 69-113: which gate returns None ("pass": none of them)
SpGate(s, a) ==
    LET weekly   == resample_ohlcv(s)
        w_latest == Num(weekly[Len(weekly)].Close)
        wf       == LastMa(weekly, a.w_fast)
        wm       == LastMa(weekly, a.w_mid)
        ws       == LastMa(weekly, a.w_slow)
    IN  IF Len(s) < a.d_slow + a.lookback_days + 10 THEN "length"
        ELSE IF Len(weekly) < a.w_slow + 2 THEN "weekly_length"
        ELSE IF ~(FGt(w_latest, wf) /\ Stacked(wf, wm, ws)) THEN "weekly"
        ELSE IF ~Stacked(LastMa(s, a.d_fast), LastMa(s, a.d_mid), LastMa(s, a.d_slow))
        THEN "daily"
        ELSE IF AlignDays(s, a.d_fast, a.d_mid, a.d_slow, a.min_align_days)
                    < a.min_align_days
        THEN "persistence"
        ELSE "pass"

\* the rows of slice(-lookback_days, None)
SpWindow(s, a) ==
    (IF a.lookback_days = 0 \/ a.lookback_days > Len(s)
     THEN 0 ELSE Len(s) - a.lookback_days)..(Len(s) - 1)

\* dist = (recent_low - recent_ma) / recent_ma * 100 at row idx
SpDist(s, p, idx) == DistToMa(s, Low(s, idx), p, idx)

\* (dist.abs() <= self.touch_pct).any() or (dist <= 0).any()
Touched(s, a, p) ==
    \/ \E idx \in SpWindow(s, a) : FLe(FAbs(SpDist(s, p, idx)), a.touch_pct)
    \/ \E idx \in SpWindow(s, a) : FLe(SpDist(s, p, idx), Num(0))

\* dist.abs().min() over the rows from..to: nan rows are skipped
RECURSIVE AbsMin(_, _, _, _)
AbsMin(s, p, from, to) ==
    IF from > to THEN NaN
    ELSE LET d    == FAbs(SpDist(s, p, from))
             rest == AbsMin(s, p, from + 1, to)
         IN  IF d.k = "nan" THEN rest
             ELSE IF rest.k = "nan" THEN d
             ELSE IF FLt(rest, d) THEN rest ELSE d

\* lines 135-142: (touch_ma_label, touch_ma_val, best_touch_dist)
SpTouched(s, a) ==
    LET w    == SpWindow(s, a)
        from == CHOOSE x \in w : \A y \in w : x <= y
        p    == IF Touched(s, a, a.d_fast) THEN a.d_fast ELSE a.d_mid
    IN  [touch |-> p, touch_ma_val |-> LastMa(s, p),
         best_touch_dist |-> AbsMin(s, p, from, Len(s) - 1)]

\* touch_score = (1 - best_touch_dist / self.touch_pct) * 30
SpTouchScore(a, t) ==
    FMul(FSub(Num(1), FDivF(t.best_touch_dist, a.touch_pct)), Num(30))

\* lines 157-173
SpScore(s, a, t) ==
    LET weekly       == resample_ohlcv(s)
        latest_close == Num(Close(s, Len(s) - 1))
        green_candle == Close(s, Len(s) - 1) > Open(s, Len(s) - 1)
        touch_score  == SpTouchScore(a, t)
        bounce_pct   == SpreadPct(latest_close, t.touch_ma_val)
        bounce_score == PyMin(Num(20), FMul(bounce_pct, Num(10)))
        w_spread_pct == SpreadPct(LastMa(weekly, a.w_fast), LastMa(weekly, a.w_slow))
        weekly_score == PyMin(Num(30), FMul(w_spread_pct, Num(3)))
        candle_bonus == IF green_candle THEN Num(10) ELSE Num(0)
        ma10_bonus   == IF Touched(s, a, a.d_fast) THEN Num(10) ELSE Num(0)
    IN  FAdd(FAdd(FAdd(FAdd(touch_score, bounce_score), weekly_score), candle_bonus),
             ma10_bonus)

\* line 175
SpSignal(score) ==
    IF FGe(score, Num(70)) THEN "STRONG_BUY"
    ELSE IF FGe(score, Num(45)) THEN "BUY"
    ELSE "WATCH"

\* lines 177-193
SpResult(s, a, t, f) ==
    LET score == SpScore(s, a, t)
    IN  ScanResult("T", Round(score, 1), SpSignal(score),
                   [touch |-> t.touch, touch_dist |-> Round(t.best_touch_dist, 2),
                    green |-> IF Close(s, Len(s) - 1) > Open(s, Len(s) - 1)
                              THEN "Y" ELSE "N",
                    sector |-> Sector(f), mkt_cap_B |-> CapBillions(f)])

----------------------------------------------------------------------------
(* scanners/ma_pullback.py *)

\* distance_pct = abs(latest - s) / s * 100
MpDistancePct(s, a) ==
    FMul(FDivF(FAbs(FSub(Num(Close(s, Len(s) - 1)), LastMa(s, a.ma_short))),
               LastMa(s, a.ma_short)),
         Num(100))

\* lines 42-70: which check returns None ("pass": none of them)
MpGate(s, a) ==
    IF Len(s) < a.ma_long + a.min_trend_days THEN "length"
    ELSE IF ~Stacked(LastMa(s, a.ma_short), LastMa(s, a.ma_medium), LastMa(s, a.ma_long))
    THEN "alignment"
    ELSE IF AlignDays(s, a.ma_short, a.ma_medium, a.ma_long, a.min_trend_days)
                < a.min_trend_days
    THEN "persistence"
    ELSE IF FGt(MpDistancePct(s, a), a.pullback_pct) THEN "pullback"
    ELSE "pass"

\* lines 73-76
MpScore(s, a) ==
    LET distance_score == FMul(FSub(Num(1), FDivF(MpDistancePct(s, a), a.pullback_pct)),
                               Num(50))
        spread_pct     == SpreadPct(LastMa(s, a.ma_short), LastMa(s, a.ma_long))
        spread_score   == PyMin(Num(50), FMul(spread_pct, Num(5)))
    IN  FAdd(distance_score, spread_score)

\* line 78
MpSignal(score) ==
    IF FGe(score, Num(70)) THEN "STRONG_BUY"
    ELSE IF FGe(score, Num(40)) THEN "BUY"
    ELSE "WATCH"

\* lines 80-95
MpResult(s, a, f) ==
    LET score == MpScore(s, a)
    IN  ScanResult("T", Round(score, 1), MpSignal(score),
                   [pullback |-> Round(MpDistancePct(s, a), 2),
                    align_days |-> AlignDays(s, a.ma_short, a.ma_medium, a.ma_long,
                                             a.min_trend_days),
                    sector |-> Sector(f), mkt_cap_B |-> CapBillions(f)])

----------------------------------------------------------------------------
(* The scan command of main.py on one ticker (scan -s <scanner> -t T): the
   scanner's scan, stage by stage, then the auto-backtest and the combined
   score *)

IsScan(name) == mode = "scan" /\ args.scanner = name

\* a scan returns: pc goes back to the scan command
Returned(r, gate) ==
    /\ result' = r
    /\ loc' = [loc EXCEPT !.gate = gate]
    /\ pc' = "scanned"

\* building the details raises: the exception leaves scan and the command
Raises(exc) ==
    /\ result' = Raised(exc)
    /\ loc' = [loc EXCEPT !.gate = "pass"]
    /\ pc' = "raised"

\* entry_point.py lines 99-135: the length, weekly, daily and floor gates
EpGates ==
    /\ IsScan("entry_point") /\ pc = "call"
    /\ LET g == EpGate(ohlcv, args)
       IN  IF g = "pass"
           THEN /\ pc' = "search"
                /\ loc' = [loc EXCEPT !.gate = g]
                /\ UNCHANGED result
           ELSE Returned(None, g)
    /\ UNCHANGED <<fundamentals, mode, ohlcv, args, i, last_touch_idx, touches>>

\* entry_point.py lines 138-212: the search for the best entry signal
EpDetect ==
    /\ IsScan("entry_point") /\ pc = "search"
    /\ LET best == EpSearch(ohlcv, args, 0, NoSignal)
       IN  IF best.signal = "none"
           THEN /\ result' = None
                /\ loc' = [loc EXCEPT !.gate = "no_signal", !.detected = TRUE]
                /\ pc' = "scanned"
           ELSE /\ loc' = [loc EXCEPT !.best = best, !.detected = TRUE]
                /\ pc' = "score"
                /\ UNCHANGED result
    /\ UNCHANGED <<fundamentals, mode, ohlcv, args, i, last_touch_idx, touches>>

\* entry_point.py lines 214-290: the bonuses, the label, the ScanResult
EpReturn ==
    /\ IsScan("entry_point") /\ pc = "score"
    /\ IF CapRaises(fundamentals)
       THEN Raises("TypeError")
       ELSE Returned(EpResult(ohlcv, args, loc.best, fundamentals), "pass")
    /\ UNCHANGED <<fundamentals, mode, ohlcv, args, i, last_touch_idx, touches>>

\* strong_pullback.py lines 69-113: length, weekly, daily, persistence gates
SpGates ==
    /\ IsScan("strong_pullback") /\ pc = "call"
    /\ LET g == SpGate(ohlcv, args)
       IN  IF g = "pass"
           THEN /\ pc' = "search"
                /\ loc' = [loc EXCEPT !.gate = g]
                /\ UNCHANGED result
           ELSE Returned(None, g)
    /\ UNCHANGED <<fundamentals, mode, ohlcv, args, i, last_touch_idx, touches>>

\* strong_pullback.py lines 115-150: touch detection, bounce confirmation
SpDetect ==
    /\ IsScan("strong_pullback") /\ pc = "search"
    /\ IF ~(Touched(ohlcv, args, args.d_fast) \/ Touched(ohlcv, args, args.d_mid))
       THEN /\ result' = None
            /\ loc' = [loc EXCEPT !.gate = "no_signal", !.detected = TRUE]
            /\ pc' = "scanned"
       ELSE LET t == SpTouched(ohlcv, args)
            IN  IF FLt(Num(Close(ohlcv, Len(ohlcv) - 1)), t.touch_ma_val)
                THEN /\ result' = None
                     /\ loc' = [loc EXCEPT !.gate = "floor", !.best = t,
                                           !.detected = TRUE]
                     /\ pc' = "scanned"
                ELSE /\ loc' = [loc EXCEPT !.best = t, !.detected = TRUE]
                     /\ pc' = "score"
                     /\ UNCHANGED result
    /\ UNCHANGED <<fundamentals, mode, ohlcv, args, i, last_touch_idx, touches>>

\* strong_pullback.py lines 152-193
SpReturn ==
    /\ IsScan("strong_pullback") /\ pc = "score"
    /\ IF CapRaises(fundamentals)
       THEN Raises("TypeError")
       ELSE Returned(SpResult(ohlcv, args, loc.best, fundamentals), "pass")
    /\ UNCHANGED <<fundamentals, mode, ohlcv, args, i, last_touch_idx, touches>>

\* ma_pullback.py lines 42-70: length, alignment, persistence, pullback
MpGates ==
    /\ IsScan("ma_pullback") /\ pc = "call"
    /\ LET g == MpGate(ohlcv, args)
       IN  IF g = "pass"
           THEN /\ pc' = "score"
                /\ loc' = [loc EXCEPT !.gate = g]
                /\ UNCHANGED result
           ELSE Returned(None, g)
    /\ UNCHANGED <<fundamentals, mode, ohlcv, args, i, last_touch_idx, touches>>

\* ma_pullback.py lines 72-95
MpReturn ==
    /\ IsScan("ma_pullback") /\ pc = "score"
    /\ IF CapRaises(fundamentals)
       THEN Raises("TypeError")
       ELSE Returned(MpResult(ohlcv, args, fundamentals), "pass")
    /\ UNCHANGED <<fundamentals, mode, ohlcv, args, i, last_touch_idx, touches>>

\* main.py lines 127-135: the result is backtested on the ticker's series
\* with the default parameters
MainBacktest ==
    /\ mode = "scan" /\ pc = "scanned" /\ ~IsNone(result)
    /\ loc' = [loc EXCEPT !.r = result]
    /\ result' = None
    /\ pc' = "bt_call"
    /\ UNCHANGED <<fundamentals, mode, ohlcv, args, i, last_touch_idx, touches>>

\* main.py lines 136-140: r.score becomes the combined score
MainCombine ==
    /\ mode = "scan" /\ pc = "bt_done"
    /\ loc' = [loc EXCEPT !.bt = result]
    /\ result' = [loc.r EXCEPT !.score =
                     Round(FAdd(FMul(@, Rat(6, 10)),
                                FMul(result.backtest_score, Rat(4, 10))), 1)]
    /\ pc' = "done"
    /\ UNCHANGED <<fundamentals, mode, ohlcv, args, i, last_touch_idx, touches>>

\* main.py lines 147-148: no result matched
MainNoResults ==
    /\ mode = "scan" /\ pc = "scanned" /\ IsNone(result)
    /\ pc' = "done"
    /\ UNCHANGED <<fundamentals, mode, ohlcv, args, i, last_touch_idx, touches, result, loc>>

----------------------------------------------------------------------------
(* The series and configurations the scanners are run on *)

\* n bars rising by one a day from BasePrice
RiseBars(n) == Extend(<<Bar(BasePrice, BasePrice, BasePrice, BasePrice, 0)>>,
                      [j \in 1..(n - 1) |-> "R"])

FlatLen  == 50
LevelLen == 10
Levels   == 5
LongBase == 2

\* a long history: FlatLen flat bars at LongBase, then Levels plateaus of
\* LevelLen bars, each one above the one before, every bar dipping one below
\* its close
LongBars ==
    [j \in 1..(FlatLen + Levels * LevelLen) |->
        IF j <= FlatLen
        THEN Bar(LongBase, LongBase, LongBase, LongBase, (j - 1) \div DaysPerWeek)
        ELSE LET c == LongBase + ((j - FlatLen - 1) \div LevelLen) + 1
             IN  Bar(c, c, c - 1, c, (j - 1) \div DaysPerWeek)]

ScanTail   == 3
ScanShapes == {"=", "G", "H", "L", "J"}
ScanTails  == [1..ScanTail -> ScanShapes]

\* a rise interrupted, two bars before its end, by a fall of eight
DipBars(n) == Extend(RiseBars(n - 3), <<"C", "R", "R">>)

\* series of the given total lengths ending in every tail: a steady rise
\* for each length, a rise with a dip for the length `full`, and the long
\* history continued by two rising bars
ScanSeries(lens, full) ==
    { Extend(RiseBars(n - ScanTail), t) : n \in lens, t \in ScanTails }
    \cup { Extend(DipBars(full - ScanTail), t) : t \in ScanTails }
    \cup { Extend(LongBars, <<"R", "R">> \o t) : t \in ScanTails }

TouchPcts == {Num(0), Num(1), Num(5)}

EpArgs ==
    { [scanner |-> "entry_point", d_fast |-> 2, d_mid |-> 3, d_slow |-> 4,
       w_fast |-> 2, w_mid |-> 3, approach_pct |-> Num(3), touch_pct |-> tp,
       lookback |-> 3, wick_body_ratio |-> Num(2), upper_wick_max |-> Rat(3, 10)] :
        tp \in TouchPcts }

SpArgs ==
    { [scanner |-> "strong_pullback", d_fast |-> 2, d_mid |-> 3, d_slow |-> 4,
       w_fast |-> 2, w_mid |-> 3, w_slow |-> 4, lookback_days |-> 3,
       touch_pct |-> tp, min_align_days |-> 2] :
        tp \in TouchPcts }

MpArgs ==
    { [scanner |-> "ma_pullback", ma_short |-> 2, ma_medium |-> 3, ma_long |-> 4,
       pullback_pct |-> pb, min_trend_days |-> 2] :
        pb \in {Num(0), Num(2), Rat(87, 10)} }

ScanLocals ==
    [gate |-> "", detected |-> FALSE, best |-> NoSignal, r |-> None, bt |-> None]

InitScan ==
    /\ mode = "scan" /\ pc = "call"
    /\ \/ args \in EpArgs /\ ohlcv \in ScanSeries({23, 24, 27}, 27)
       \/ args \in SpArgs /\ ohlcv \in ScanSeries({16, 17, 27}, 27)
       \/ args \in MpArgs /\ ohlcv \in ScanSeries({5, 6, 9}, 9)
    /\ i = 0 /\ last_touch_idx = 0 /\ touches = <<>>
    /\ result = None
    /\ loc = ScanLocals
    /\ fundamentals = NoFundamentals

NextScan ==
    \/ EpGates \/ EpDetect \/ EpReturn
    \/ SpGates \/ SpDetect \/ SpReturn
    \/ MpGates \/ MpReturn
    \/ MainBacktest \/ BtEnter \/ BtLoop \/ BtReturn \/ MainCombine
    \/ MainNoResults

SpecScan == InitScan /\ [][NextScan]_vars

----------------------------------------------------------------------------
(* The touch predicate at its three sites, applied to the last bar of a short
   series: backtest/ma_sensitivity.py lines 107-113, entry_point.py lines
   160-169, strong_pullback.py lines 124-129 *)

TouchApply ==
    /\ mode = "touch" /\ pc = "call"
    /\ result' =
         [backtest        |-> BtTouch(ohlcv, args, args.p, Len(ohlcv) - 1),
          entry_point     |-> LowNearMa(DistToMa(ohlcv, Low(ohlcv, Len(ohlcv) - 1), args.p,
                                                 Len(ohlcv) - 1),
                                        args.touch_pct),
          strong_pullback |-> Touched(ohlcv, args, args.p)]
    /\ pc' = "done"
    /\ UNCHANGED <<fundamentals, mode, ohlcv, args, i, last_touch_idx, touches, loc>>

TouchLen    == 3
TouchCloses == {0, 20, 22}
TouchLows   == {0, 18, 20, 21, 22}

TouchBars ==
    { Bar(cl[1], cl[1], cl[2], cl[1], 0) :
        cl \in {x \in TouchCloses \X TouchLows : x[2] <= x[1]} }

InitTouch ==
    /\ mode = "touch" /\ pc = "call"
    /\ ohlcv \in [1..TouchLen -> TouchBars]
    /\ args \in [p : {1, 2}, touch_pct : {Num(0), Num(5), Num(10)},
                 lookback_days : {1, 2}]
    /\ i = 0 /\ last_touch_idx = 0 /\ touches = <<>>
    /\ result = None
    /\ loc = <<>>
    /\ fundamentals = NoFundamentals

NextTouch == TouchApply

SpecTouch == InitTouch /\ [][NextTouch]_vars

\* the MA of period p at row idx is positive
PositiveMa(s, p, idx) == MaDefined(p, idx) /\ RollSum(s, p, idx) > 0

\* (low - ma) / ma * 100 <= touch_pct at row idx, in integers: with
\* ma = sum / p > 0 and touch_pct = n / d it is 100 * (low*p - sum) * d <= n * sum
WithinTouchPct(s, p, idx, touch_pct) ==
    100 * (Low(s, idx) * p - RollSum(s, p, idx)) * touch_pct.d
        <= touch_pct.n * RollSum(s, p, idx)

\* C7: at each of the three sites, for a positive MA value and a tolerance
\* touch_pct >= 0, the bar is a touch iff (low - ma) / ma * 100 <= touch_pct;
\* strong_pullback's window is touched iff one of its bars is.
C7_TouchAsymmetric ==
    (mode = "touch" /\ pc = "done") =>
      LET last == Len(ohlcv) - 1
      IN  /\ PositiveMa(ohlcv, args.p, last) =>
                /\ result.backtest <=> WithinTouchPct(ohlcv, args.p, last, args.touch_pct)
                /\ result.entry_point <=> WithinTouchPct(ohlcv, args.p, last, args.touch_pct)
          /\ (\A idx \in SpWindow(ohlcv, args) : PositiveMa(ohlcv, args.p, idx)) =>
                (result.strong_pullback <=>
                    \E idx \in SpWindow(ohlcv, args) :
                        WithinTouchPct(ohlcv, args.p, idx, args.touch_pct))

\* a bar far below a positive MA counted as a touch under a zero tolerance
C7_Witness ==
    /\ mode = "touch" /\ pc = "done"
    /\ PositiveMa(ohlcv, args.p, Len(ohlcv) - 1)
    /\ args.touch_pct = Num(0) /\ args.lookback_days = 1
    /\ Low(ohlcv, Len(ohlcv) - 1) * args.p < RollSum(ohlcv, args.p, Len(ohlcv) - 1)
    /\ result.backtest /\ result.entry_point /\ result.strong_pullback

----------------------------------------------------------------------------
(* The backtester on its own and the scan command, together *)

Init == InitBacktest \/ InitScan

\* NextScan has the backtester's steps among its own
Next == NextScan

Spec == Init /\ [][Next]_vars

----------------------------------------------------------------------------
(* Claims about gates, scores and labels *)

IsScanResult(r) == "signal" \in DOMAIN r

\* the ScanResult of the run, once scan has returned one
HasResult == mode = "scan" /\ (IsScanResult(result) \/ IsScanResult(loc.r))
TheResult == IF IsScanResult(result) THEN result ELSE loc.r

\* the scanner's minimum number of daily bars
PolicyMinimum(a) ==
    CASE a.scanner = "entry_point"     -> a.d_slow + 20
      [] a.scanner = "strong_pullback" -> a.d_slow + a.lookback_days + 10
      [] a.scanner = "ma_pullback"     -> a.ma_long + a.min_trend_days

\* C6: a backtest of a series with fewer than max(max(ma_periods), trend_ma)
\* + 50 bars returns the all-zero result, and a scan of a series shorter than
\* the scanner's policy minimum returns None.
C6_InsufficientHistory ==
    /\ (pc = "bt_done" /\ Len(ohlcv) < MinPeriod(BtArguments) + 50) =>
          /\ result.win_rate = Num(0) /\ result.avg_return = Num(0)
          /\ result.total_touches = 0 /\ result.backtest_score = Num(0)
          /\ DOMAIN result.ma_win_rate =
                {BtArguments.ma_periods[j] : j \in 1..Len(BtArguments.ma_periods)}
          /\ DOMAIN result.ma_touches = DOMAIN result.ma_win_rate
          /\ \A p \in DOMAIN result.ma_win_rate :
                result.ma_win_rate[p] = Num(0) /\ result.ma_touches[p] = 0
    /\ (mode = "scan" /\ Len(ohlcv) < PolicyMinimum(args)) =>
          /\ ~HasResult
          /\ pc \in {"call", "scanned", "done"}
          /\ pc # "call" => IsNone(result)

\* a backtest returned for a series one bar short of the warmup gate
C6_Witness ==
    /\ mode = "backtest" /\ pc = "bt_done"
    /\ Len(ohlcv) = MinPeriod(args) + 50 - 1
    /\ result.total_touches = 0

\* a scan returned None for a series one bar short of the policy minimum
C6_ScanWitness ==
    /\ mode = "scan" /\ pc = "scanned"
    /\ Len(ohlcv) = PolicyMinimum(args) - 1
    /\ IsNone(result)

InUnitRange(score) == FGe(score, Num(0)) /\ FLe(score, Num(100))

\* C8: the score of every ScanResult is in [0, 100], when scan returns it
\* and after the scan command has replaced it by the combined score.
C8_ScoreBounded == HasResult => InUnitRange(TheResult.score)

\* a raw strong_pullback score below zero was clamped at construction, and
\* the combined score with a positive backtest score replaced it
C8_Witness ==
    /\ mode = "scan" /\ pc = "done" /\ IsScanResult(result)
    /\ args.scanner = "strong_pullback"
    /\ FLt(SpScore(ohlcv, args, loc.best), Num(0))
    /\ loc.r.score = Num(0)
    /\ FGt(loc.bt.backtest_score, Num(0))
    /\ FGt(result.score, Num(0))

\* the label the scanner's thresholds give a score
LabelOf(scanner, score) ==
    LET strong == IF scanner = "entry_point" THEN 65 ELSE 70
        buy    == IF scanner = "strong_pullback" THEN 45 ELSE 40
    IN  IF FGe(score, Num(strong)) THEN "STRONG_BUY"
        ELSE IF FGe(score, Num(buy)) THEN "BUY"
        ELSE "WATCH"

\* C9: the signal of the ScanResult a scan returns is the threshold label of
\* the score stored in that ScanResult.
C9_LabelOfStoredScore ==
    (mode = "scan" /\ pc = "scanned" /\ IsScanResult(result)) =>
        result.signal = LabelOf(args.scanner, result.score)

\* the label is the threshold label of the score before it is rounded
C9_LabelOfRawScore ==
    (mode = "scan" /\ pc = "scanned" /\ IsScanResult(result)) =>
        result.signal =
            LabelOf(args.scanner,
                    CASE args.scanner = "entry_point" -> EpScore(ohlcv, args, loc.best)
                      [] args.scanner = "strong_pullback" -> SpScore(ohlcv, args, loc.best)
                      [] args.scanner = "ma_pullback" -> MpScore(ohlcv, args))

\* the latest weekly close and weekly MAs satisfy the scanner's weekly filter
WeeklyFilter(s, a) ==
    LET weekly == resample_ohlcv(s)
        w_last == Num(weekly[Len(weekly)].Close)
    IN  IF a.scanner = "entry_point"
        THEN FGt(w_last, LastMa(weekly, a.w_mid))
        ELSE /\ FGt(w_last, LastMa(weekly, a.w_fast))
             /\ FGt(LastMa(weekly, a.w_fast), LastMa(weekly, a.w_mid))
             /\ FGt(LastMa(weekly, a.w_mid), LastMa(weekly, a.w_slow))

DailyStack(s, a) ==
    /\ FGt(LastMa(s, a.d_fast), LastMa(s, a.d_mid))
    /\ FGt(LastMa(s, a.d_mid), LastMa(s, a.d_slow))

\* the floor MA: entry_point's daily mid MA, strong_pullback's touched MA
FloorPeriod(a, r) == IF a.scanner = "entry_point" THEN a.d_mid ELSE r.details.touch

Gated == mode = "scan" /\ args.scanner \in {"entry_point", "strong_pullback"}

\* C10: when scan of entry_point or strong_pullback returns a result, the
\* daily stack is aligned on the latest bar, the weekly filter holds and the
\* latest close is not below the floor MA; and signal detection only ever
\* runs on a series that passed the weekly filter, so a failing weekly
\* filter returns None before any detection.
C10_GatesPassed ==
    Gated =>
      /\ (pc = "scanned" /\ IsScanResult(result)) =>
            /\ DailyStack(ohlcv, args)
            /\ WeeklyFilter(ohlcv, args)
            /\ FGe(Num(Close(ohlcv, Len(ohlcv) - 1)),
                   LastMa(ohlcv, FloorPeriod(args, result)))
      /\ (pc \in {"search", "score"} \/ (pc = "scanned" /\ loc.detected)) =>
            WeeklyFilter(ohlcv, args)
      /\ (pc = "scanned" /\ loc.gate = "weekly") =>
            /\ IsNone(result)
            /\ ~loc.detected

\* scan returned None at the weekly filter, on a series long enough, with
\* the daily stack aligned and the close above the floor
C10_Witness ==
    /\ Gated /\ pc = "scanned" /\ IsNone(result)
    /\ loc.gate = "weekly" /\ ~loc.detected
    /\ DailyStack(ohlcv, args)
    /\ FGe(Num(Close(ohlcv, Len(ohlcv) - 1)), LastMa(ohlcv, args.d_mid))

----------------------------------------------------------------------------
(* the alignment-persistence gate of ma_pullback and strong_pullback *)

MaxWindow == 5

\* the two scanners with every persistence window up to MaxWindow
AlignArgs ==
    { [a EXCEPT !.min_align_days = w] : a \in SpArgs, w \in 1..MaxWindow }
    \cup { [a EXCEPT !.min_trend_days = w] : a \in MpArgs, w \in 1..MaxWindow }

InitAlign ==
    /\ mode = "scan" /\ pc = "call"
    /\ args \in AlignArgs
    /\ IF args.scanner = "strong_pullback"
       THEN ohlcv \in ScanSeries({16, 17, 27}, 27)
       ELSE ohlcv \in ScanSeries({5, 6, 9}, 9)
    /\ i = 0 /\ last_touch_idx = 0 /\ touches = <<>>
    /\ result = None
    /\ loc = ScanLocals
    /\ fundamentals = NoFundamentals

NextAlign == SpGates \/ SpDetect \/ SpReturn \/ MpGates \/ MpReturn

SpecAlign == InitAlign /\ [][NextAlign]_vars

\* the configured persistence window and the three MA periods of the scanner
Window(a) ==
    IF a.scanner = "strong_pullback" THEN a.min_align_days ELSE a.min_trend_days

StackPeriods(a) ==
    IF a.scanner = "strong_pullback"
    THEN <<a.d_fast, a.d_mid, a.d_slow>>
    ELSE <<a.ma_short, a.ma_medium, a.ma_long>>

AlignedAt(s, a, idx) ==
    LET p == StackPeriods(a)
    IN  /\ FGt(Ma(s, p[1], idx), Ma(s, p[2], idx))
        /\ FGt(Ma(s, p[2], idx), Ma(s, p[3], idx))

\* the number of bars, counted back from the latest, on which the three MAs
\* are strictly descending without interruption
RunLength(s, a) ==
    LET Run(k) == \A j \in 1..k : AlignedAt(s, a, Len(s) - j)
    IN  CHOOSE k \in 0..Len(s) :
            /\ Run(k)
            /\ k < Len(s) => ~AlignedAt(s, a, Len(s) - k - 1)

AlignScanned ==
    /\ mode = "scan" /\ pc = "scanned"
    /\ args.scanner \in {"strong_pullback", "ma_pullback"}

\* scan returned before reaching the alignment gates
BeforeAlignment == loc.gate \in {"length", "weekly_length", "weekly"}

\* C11: a result is returned only if the three MAs are strictly descending
\* on every one of the last `window` bars; on a series aligned on exactly
\* the last k >= 1 bars the persistence gate passes with window = k and
\* fails, returning None, with window = k + 1.
C11_AllOrNothing ==
    AlignScanned =>
        LET w == Window(args)
            k == RunLength(ohlcv, args)
        IN  /\ IsScanResult(result) => k >= w
            /\ (k >= 1 /\ w <= k /\ ~BeforeAlignment) =>
                    loc.gate \notin {"alignment", "daily", "persistence"}
            /\ (k >= 1 /\ w = k + 1 /\ ~BeforeAlignment) =>
                    loc.gate = "persistence" /\ IsNone(result)

\* window = k + 1 on a series aligned on exactly the last k bars: None
C11_Witness ==
    /\ AlignScanned
    /\ RunLength(ohlcv, args) >= 2
    /\ Window(args) = RunLength(ohlcv, args) + 1
    /\ loc.gate = "persistence" /\ IsNone(result)

\* window = k on the same kind of series: the gate passes and a result is
\* returned
C11_PassWitness ==
    /\ AlignScanned
    /\ RunLength(ohlcv, args) >= 2
    /\ RunLength(ohlcv, args) < Len(ohlcv)
    /\ Window(args) = RunLength(ohlcv, args)
    /\ IsScanResult(result)

----------------------------------------------------------------------------
(* the composite score of _compute_metrics *)

\* clamp(lo, hi, x) of a finite x
Clamp(lo, hi, x) == IF FLt(x, lo) THEN lo ELSE IF FGt(x, hi) THEN hi ELSE x

\* (win_score + return_score) * confidence, unrounded
CompositeScore(ts) ==
    LET win_score    == Clamp(Num(0), Num(50),
                              FScale(FOver(FSub(WinRate(ts), Num(40)), 40), 50))
        return_score == Clamp(Num(0), Num(50), FScale(FOver(AvgReturn(ts), 2), 50))
        confidence   == IF Len(ts) >= 10 THEN Num(1) ELSE Rat(Len(ts), 10)
    IN  FMulPos(FAdd(win_score, return_score), confidence)

MetricsDone == mode = "metrics" /\ pc = "done" /\ touches # <<>>

----------------------------------------------------------------------------
(* the 300-bar uptrend scenario of backtest_ma_sensitivity *)

UpLen == 300

\* the close of the trend at the 0-based bar idx: a steady rise
Trend(idx) == 1020 + 17 * idx

\* a bar that dips to its MA10 and closes 2% below the trend close five bars
\* later
DipBar(idx, w) ==
    LET c == (Trend(idx + 5) * 50) \div 51
    IN  Bar(c, c, Trend(idx) - 77, c, w)

\* the uptrend with a dip at each bar of ts
UptrendSeries(ts) ==
    [j \in 1..UpLen |->
        IF (j - 1) \in ts
        THEN DipBar(j - 1, (j - 1) \div DaysPerWeek)
        ELSE Bar(Trend(j - 1), Trend(j - 1), Trend(j - 1), Trend(j - 1),
                 (j - 1) \div DaysPerWeek)]

\* the first dip and the gaps between one dip and the next
FirstDips == {52, 61, 100}
DipGaps   == {3, 6, 51}

ScenarioSeries ==
    { UptrendSeries({t, t + g[1], t + g[1] + g[2], t + g[1] + g[2] + g[3]}) :
        t \in FirstDips, g \in [1..3 -> DipGaps] }

InitScenario ==
    /\ mode = "backtest" /\ pc = "bt_call"
    /\ ohlcv \in ScenarioSeries
    /\ args = [BtDefaults EXCEPT !.hold_days = 5, !.cooldown = 3]
    /\ i = 0 /\ last_touch_idx = 0 /\ touches = <<>>
    /\ result = None
    /\ loc = <<>>
    /\ fundamentals = NoFundamentals

NextScenario == BtEnter \/ BtLoop \/ BtReturn

SpecScenario == InitScenario /\ [][NextScenario]_vars

\* the bars whose low is at most 1% above MA10
Ma10Touches(s) ==
    { idx \in 9..(Len(s) - 1) :
        FLe(FScale(FDivF(FSub(Num(Low(s, idx)), Ma(s, 10, idx)), Ma(s, 10, idx)), 100),
            Num(1)) }

\* the premise of the scenario: 300 bars, MA10 > MA20 > MA50 on every bar
\* that has all three, exactly 4 bars touching MA10, at least 3 bars apart,
\* each followed by a 5-bar close-to-close return of +2%
UptrendScenario(s) ==
    /\ Len(s) = 300
    /\ \A idx \in 49..(Len(s) - 1) :
            /\ FGt(Ma(s, 10, idx), Ma(s, 20, idx))
            /\ FGt(Ma(s, 20, idx), Ma(s, 50, idx))
    /\ Cardinality(Ma10Touches(s)) = 4
    /\ \A t1, t2 \in Ma10Touches(s) : t1 < t2 => t2 - t1 >= 3
    /\ \A t \in Ma10Touches(s) :
            /\ t + 5 < Len(s)
            /\ Close(s, t + 5) * 100 = Close(s, t) * 102

ScenarioDone == mode = "backtest" /\ pc = "bt_done" /\ args.hold_days = 5
                    /\ args.cooldown = 3 /\ UptrendScenario(ohlcv)

ScenarioReport ==
    /\ result.total_touches = 4
    /\ result.win_rate = Num(100)
    /\ result.avg_return = Num(2)
    /\ result.backtest_score = Num(40)

\* C13 as stated: on every such series the backtest reports 4 touches, a
\* win rate of 100.0, an average return of 2.0 and a score of 40.0.
C13_Reported == ScenarioDone => ScenarioReport

\* C13 amended: the same, when the 4 touching bars lie at or after the first
\* bar the walk visits (bar max(20, 50) + 10 = 60).
C13_ReportedAfterWarmup ==
    (ScenarioDone /\ \A t \in Ma10Touches(ohlcv) : t >= 60) => ScenarioReport

\* the scenario with two touching bars exactly 3 bars apart, every low
\* within 1% of MA10 on either side
C13_Witness ==
    /\ ScenarioDone
    /\ \A t \in Ma10Touches(ohlcv) :
            /\ t >= 60
            /\ FGe(FScale(FDivF(FSub(Num(Low(ohlcv, t)), Ma(ohlcv, 10, t)),
                                Ma(ohlcv, 10, t)), 100), Num(-1))
    /\ \E t \in Ma10Touches(ohlcv) : t + 3 \in Ma10Touches(ohlcv)
    /\ ScenarioReport

----------------------------------------------------------------------------
(* scan with a fundamentals record *)

\* the records main.py can pass: each key absent, present with a value, or
\* present with the null a failed or incomplete fetch leaves in the cache
\* (None in an object column, NaN in a float column)
FundRecords ==
    UNION { [d -> {Str("Technology"), Num(1500000000), NaN, None}] :
                d \in SUBSET {"sector", "marketCap"} }

WellTyped(f) ==
    /\ "sector" \in DOMAIN f => f["sector"] \in {Str("Technology"), NaN, None}
    /\ "marketCap" \in DOMAIN f => f["marketCap"] \in {Num(1500000000), NaN, None}

FundArgs ==
    { a \in EpArgs \cup SpArgs : a.touch_pct = Num(5) }
    \cup { a \in MpArgs : a.pullback_pct = Rat(87, 10) }

InitFund ==
    /\ mode = "scan" /\ pc = "call"
    /\ args \in FundArgs
    /\ CASE args.scanner = "entry_point" -> ohlcv \in ScanSeries({23, 24, 27}, 27)
         [] args.scanner = "strong_pullback" -> ohlcv \in ScanSeries({16, 17, 27}, 27)
         [] args.scanner = "ma_pullback" -> ohlcv \in ScanSeries({5, 6, 9}, 9)
    /\ i = 0 /\ last_touch_idx = 0 /\ touches = <<>>
    /\ result = None
    /\ loc = ScanLocals
    /\ fundamentals \in {f \in FundRecords : WellTyped(f)}

NextFund ==
    \/ EpGates \/ EpDetect \/ EpReturn
    \/ SpGates \/ SpDetect \/ SpReturn
    \/ MpGates \/ MpReturn

SpecFund == InitFund /\ [][NextFund]_vars

\* the key is absent, or present with a null
Unknown(f, key) == key \notin DOMAIN f \/ IsNone(f[key]) \/ f[key] = NaN

\* the market cap a result's details carry
CapOf(r) ==
    IF "cap_B" \in DOMAIN r.details THEN r.details.cap_B ELSE r.details.mkt_cap_B

\* C14: scan never raises on a fundamentals access, and a returned result
\* carries sector "N/A" when the sector is unknown and market cap 0.0 when
\* the market cap is unknown (absent key, empty record, or null value).
C14_DegradesToDefault ==
    (mode = "scan" /\ pc \in {"scanned", "raised"}) =>
        /\ pc # "raised"
        /\ IsScanResult(result) =>
              /\ Unknown(fundamentals, "sector") =>
                    result.details.sector = Str("N/A")
              /\ Unknown(fundamentals, "marketCap") => CapOf(result) = Num(0)

\* the same for absent keys only: these do degrade to the defaults
C14_AbsentDegrades ==
    (mode = "scan" /\ pc = "scanned" /\ IsScanResult(result)) =>
        /\ "sector" \notin DOMAIN fundamentals => result.details.sector = Str("N/A")
        /\ "marketCap" \notin DOMAIN fundamentals => CapOf(result) = Num(0)

----------------------------------------------------------------------------
(* The backtest command of main.py with --scanner: one scanner object scans
   ticker after ticker, then the tickers are backtested one after another *)

MaxCalls == 3

SessionTails == {<<"=", "=", "=">>, <<"H", "G", "G">>, <<"L", "H", "J">>}

\* the cached series of the tickers
SessionSeries == { Extend(LongBars, <<"R", "R">> \o t) : t \in SessionTails }

\* the cached fundamentals rows of the tickers
SessionFunds ==
    {NoFundamentals, [sector |-> Str("Technology"), marketCap |-> Num(1500000000)]}

\* what the call that just returned was given and what it returned
CallRecord(fn) ==
    [fn |-> fn, series |-> ohlcv, fund |-> fundamentals, result |-> result]

SessionLocals == [gate |-> "", detected |-> FALSE, best |-> NoSignal, r |-> None,
                  bt |-> None, log |-> <<>>]

InitSession ==
    /\ mode = "scan" /\ pc = "call"
    /\ args \in {a \in SpArgs : a.touch_pct = Num(5)}
    /\ ohlcv \in SessionSeries
    /\ fundamentals \in SessionFunds
    /\ i = 0 /\ last_touch_idx = 0 /\ touches = <<>>
    /\ result = None
    /\ loc = SessionLocals

\* main.py lines 199-207: the scan loop moves on to the next ticker
SessionScan ==
    /\ mode = "scan" /\ pc = "scanned" /\ "log" \in DOMAIN loc
    /\ Len(loc.log) < MaxCalls
    /\ ohlcv' \in SessionSeries
    /\ fundamentals' \in SessionFunds
    /\ loc' = [SessionLocals EXCEPT !.log = Append(loc.log, CallRecord("scan"))]
    /\ result' = None
    /\ pc' = "call"
    /\ UNCHANGED <<mode, args, i, last_touch_idx, touches>>

\* main.py lines 217-226: the backtest loop calls backtest_ma_sensitivity on
\* the next ticker's series
SessionBacktest ==
    /\ mode = "scan" /\ pc \in {"scanned", "bt_done"} /\ "log" \in DOMAIN loc
    /\ Len(loc.log) < MaxCalls
    /\ ohlcv' \in SessionSeries
    /\ loc' = [loc EXCEPT !.log = Append(loc.log,
                    CallRecord(IF pc = "scanned" THEN "scan" ELSE "backtest"))]
    /\ result' = None
    /\ pc' = "bt_call"
    /\ UNCHANGED <<fundamentals, mode, args, i, last_touch_idx, touches>>

NextSession ==
    \/ SpGates \/ SpDetect \/ SpReturn
    \/ SessionScan \/ SessionBacktest
    \/ BtEnter \/ BtLoop \/ BtReturn

SpecSession == InitSession /\ [][NextSession]_vars

InSession == mode = "scan" /\ "log" \in DOMAIN loc

\* the calls that have returned so far
Completed ==
    { loc.log[j] : j \in 1..Len(loc.log) }
    \cup (IF pc = "scanned" THEN {CallRecord("scan")}
          ELSE IF pc = "bt_done" THEN {CallRecord("backtest")} ELSE {})

\* two calls of the same function with the same inputs returned the same
Deterministic ==
    InSession =>
        \A c1, c2 \in Completed :
            (c1.fn = c2.fn /\ c1.series = c2.series
             /\ (c1.fn = "scan" => c1.fund = c2.fund))
            => c1.result = c2.result

\* a step taken inside scan or backtest_ma_sensitivity, not by their caller
InsideCall == InSession /\ pc \notin {"scanned", "bt_done"}

\* C15: no step of scan or backtest_ma_sensitivity changes the series, the
\* fundamentals record or the scanner's parameters, and any two calls with
\* the same series and configuration, in any order and with calls on other
\* tickers in between, returned equal results.
C15_Pure ==
    /\ [][InsideCall => UNCHANGED <<ohlcv, fundamentals, args>>]_vars
    /\ []Deterministic

\* the same series scanned twice and backtested twice, with a call on
\* another ticker in between, every time with a result and recorded events
C15_Witness ==
    /\ InSession /\ pc = "bt_done" /\ Len(loc.log) = 3
    /\ loc.log[1].fn = "scan" /\ IsScanResult(loc.log[1].result)
    /\ loc.log[2].fn = "backtest" /\ loc.log[2].series = loc.log[1].series
    /\ loc.log[2].result.total_touches > 0
    /\ loc.log[3].fn = "backtest" /\ loc.log[3].series # loc.log[1].series
    /\ ohlcv = loc.log[1].series
    /\ result = loc.log[2].result

----------------------------------------------------------------------------
(* backtest_ma_sensitivity on series with a zero close *)

DegShapes == {"X", "Z", "U"}

DegSeries ==
    { Extend(FlatBars(n), t \o [j \in 1..SuffixLen |-> "="]) :
        n \in BtPrefix, t \in [1..TailLen -> DegShapes] }

DegArgs ==
    { a \in BtArgs : a.touch_pct = Num(0) /\ a.cooldown = 1
                     /\ a.strategy \in {"bounce", "max_return"} }

InitDegenerate ==
    /\ mode = "backtest" /\ pc = "bt_call"
    /\ ohlcv \in DegSeries
    /\ args \in DegArgs
    /\ i = 0 /\ last_touch_idx = 0 /\ touches = <<>>
    /\ result = None
    /\ loc = <<>>
    /\ fundamentals = NoFundamentals

NextDegenerate == BtEnter \/ BtLoop \/ BtReturn

SpecDegenerate == InitDegenerate /\ [][NextDegenerate]_vars

\* C16: a bar whose close is zero yields no TouchEvent, every recorded
\* return is a finite number, and so is every reported metric and the score.
C16_NoDegenerateValues ==
    mode = "backtest" =>
        /\ \A j \in 1..Len(touches) :
              /\ Close(ohlcv, touches[j].idx) # 0
              /\ IsNum(touches[j].return_pct)
        /\ pc = "bt_done" =>
              /\ IsNum(result.win_rate)
              /\ IsNum(result.avg_return)
              /\ IsNum(result.backtest_score)

\* the same on the events whose touch-day close is positive: these returns
\* are finite
C16_FiniteOnPositiveClose ==
    mode = "backtest" =>
        \A j \in 1..Len(touches) :
            Close(ohlcv, touches[j].idx) > 0 => IsNum(touches[j].return_pct)

----------------------------------------------------------------------------
(* data/ohlcv_cache.py: fetch_all_ohlcv. The main thread is at pc; the
   futures of the pool are loc.status, one per position of the ticker list *)

\* the size of the pool and of a batch (6 in config.py)
FETCH_WORKERS == 2

MaxTickers == 5

\* the positions of tickers[batch_start : batch_start + 2 * FETCH_WORKERS]
BatchTwice(a, l) ==
    { t \in 1..Len(a.tickers) :
        t > l.batch_start /\ t <= l.batch_start + 2 * FETCH_WORKERS }

\* the positions of tickers[batch_start : batch_start + FETCH_WORKERS]
Batch(a, l) ==
    { t \in 1..Len(a.tickers) :
        t > l.batch_start /\ t <= l.batch_start + FETCH_WORKERS }

\* the fetches in flight
InFlight(l) == { t \in DOMAIN l.status : l.status[t] = "running" }

FetchLocals(n) ==
    [batch_start |-> 0, submitted |-> 0, sleeps |-> 0, failed |-> <<>>,
     status |-> [t \in 1..n |-> "pending"], count |-> [t \in 1..n |-> 0]]

InitFetch ==
    /\ mode = "fetch" /\ pc = "loop"
    /\ \E n \in 0..MaxTickers, bad \in SUBSET (1..MaxTickers) :
          /\ bad \subseteq 1..n
          /\ args = [tickers |-> [t \in 1..n |-> t], raises |-> bad]
          /\ loc = FetchLocals(n)
    /\ ohlcv = <<>>
    /\ i = 0 /\ last_touch_idx = 0 /\ touches = <<>>
    /\ result = None
    /\ fundamentals = NoFundamentals

\* line 126: the next batch, or lines 145-147 when the list is exhausted
FetchLoop ==
    /\ mode = "fetch" /\ pc = "loop"
    /\ IF loc.batch_start < Len(args.tickers)
       THEN /\ pc' = "submit"
            /\ loc' = [loc EXCEPT !.submitted = 0]
            /\ UNCHANGED result
       ELSE /\ pc' = "done"
            /\ result' = loc.failed
            /\ UNCHANGED loc
    /\ UNCHANGED <<fundamentals, mode, ohlcv, args, i, last_touch_idx, touches>>

\* lines 129-133: executor.submit for the next ticker of the batch
FetchSubmit ==
    /\ mode = "fetch" /\ pc = "submit"
    /\ LET t == loc.batch_start + loc.submitted + 1
       IN  IF t \in Batch(args, loc)
           THEN /\ loc' = [loc EXCEPT !.status[t] = "queued",
                                      !.submitted = @ + 1]
                /\ UNCHANGED pc
           ELSE /\ pc' = "collect"
                /\ UNCHANGED loc
    /\ UNCHANGED <<fundamentals, mode, ohlcv, args, i, last_touch_idx, touches, result>>

\* a pool thread takes a queued call of _fetch_one; the pool has at most
\* FETCH_WORKERS threads
WorkerStart ==
    /\ mode = "fetch"
    /\ \E t \in DOMAIN loc.status :
          /\ loc.status[t] = "queued"
          /\ Cardinality(InFlight(loc)) < FETCH_WORKERS
          /\ loc' = [loc EXCEPT !.status[t] = "running", !.count[t] = @ + 1]
    /\ UNCHANGED <<fundamentals, mode, pc, ohlcv, args, i, last_touch_idx, touches, result>>

\* lines 103-109: _fetch_one returns (ticker, True, "") or, when fetch_ohlcv
\* raised, (ticker, False, error)
WorkerFinish ==
    /\ mode = "fetch"
    /\ \E t \in DOMAIN loc.status :
          /\ loc.status[t] = "running"
          /\ loc' = [loc EXCEPT !.status[t] =
                        IF t \in args.raises THEN "failure" ELSE "success"]
    /\ UNCHANGED <<fundamentals, mode, pc, ohlcv, args, i, last_touch_idx, touches, result>>

\* lines 134-139: as_completed hands over a finished future; when none is
\* left the with block ends
FetchCollect ==
    /\ mode = "fetch" /\ pc = "collect"
    /\ \/ \E t \in Batch(args, loc) :
             /\ loc.status[t] \in {"success", "failure"}
             /\ loc' = [loc EXCEPT !.status[t] = "seen",
                                   !.failed = IF loc.status[t] = "failure"
                                              THEN Append(@, args.tickers[t]) ELSE @]
             /\ UNCHANGED pc
       \/ /\ \A t \in Batch(args, loc) : loc.status[t] = "seen"
          /\ pc' = "sleep"
          /\ UNCHANGED loc
    /\ UNCHANGED <<fundamentals, mode, ohlcv, args, i, last_touch_idx, touches, result>>

\* line 141: time.sleep(FETCH_SLEEP_SECONDS), then the next round of the loop
FetchSleep ==
    /\ mode = "fetch" /\ pc = "sleep"
    /\ loc' = [loc EXCEPT !.sleeps = @ + 1, !.batch_start = @ + FETCH_WORKERS]
    /\ pc' = "loop"
    /\ UNCHANGED <<fundamentals, mode, ohlcv, args, i, last_touch_idx, touches, result>>

NextFetch ==
    \/ FetchLoop \/ FetchSubmit \/ WorkerStart \/ WorkerFinish
    \/ FetchCollect \/ FetchSleep

SpecFetch == InitFetch /\ [][NextFetch]_vars

\* the 0-based number of the batch the position t belongs to
BatchNo(t) == (t - 1) \div FETCH_WORKERS

\* C17: at most FETCH_WORKERS fetches are in flight; a fetch of a later
\* batch has started only after every fetch of the earlier batches was
\* completed and collected and the pauses between them elapsed; no ticker is
\* fetched twice and at the return every ticker was fetched exactly once;
\* the returned list holds exactly the tickers whose fetch raised.
C17_BoundedFanOut ==
    mode = "fetch" =>
        /\ Cardinality(InFlight(loc)) <= FETCH_WORKERS
        /\ \A t \in DOMAIN loc.status :
              /\ loc.count[t] <= 1
              /\ loc.status[t] # "pending" =>
                    /\ loc.sleeps >= BatchNo(t)
                    /\ \A u \in DOMAIN loc.status :
                          BatchNo(u) < BatchNo(t) => loc.status[u] = "seen"
        /\ pc = "done" =>
              /\ \A t \in DOMAIN loc.status : loc.count[t] = 1
              /\ {result[j] : j \in 1..Len(result)} = args.raises
              /\ Len(result) = Cardinality(args.raises)

\* three batches, fetches failing in two of them, and a returned list that is
\* not in the order of the request
C17_Witness ==
    /\ mode = "fetch" /\ pc = "done"
    /\ Len(args.tickers) = MaxTickers
    /\ args.raises = {1, 2, MaxTickers}
    /\ result = <<2, 1, MaxTickers>>

----------------------------------------------------------------------------
(* the range of the walk-forward loop *)

\* the periods of the configured MAs and of the trend MA
AllPeriods(a) == {a.ma_periods[j] : j \in 1..Len(a.ma_periods)} \cup {a.trend_ma}

\* the bar the loop is about to evaluate
AtBar == Running /\ pc = "bt_loop" /\ i < Len(ohlcv) - args.hold_days

\* C18: the loop index runs from the warmup index min_period + 10 up to but
\* excluding len - hold_days; at every bar it evaluates, every configured MA
\* and the trend MA are defined and i + hold_days < len, so the strategy
\* returns a value; every event is at such a bar; and either strategy
\* returns no value exactly when touch_idx + hold_days >= len.
C18_LoopRange ==
    Running =>
        /\ i >= MinPeriod(args) + 10
        /\ i <= Len(ohlcv) - args.hold_days
        /\ pc = "bt_done" => i = Len(ohlcv) - args.hold_days
        /\ (pc = "bt_loop" /\ i >= Len(ohlcv) - args.hold_days) => ~ENABLED BtLoop
        /\ AtBar =>
              /\ \A p \in AllPeriods(args) : i >= p - 1 /\ Ma(ohlcv, p, i) # NaN
              /\ i + args.hold_days < Len(ohlcv)
              /\ StrategyFn(args.strategy, ohlcv, i, args.hold_days) # None
        /\ \A k \in 1..Len(touches) :
              /\ touches[k].idx >= MinPeriod(args) + 10
              /\ touches[k].idx < Len(ohlcv) - args.hold_days
              /\ touches[k].idx < i
        /\ pc = "bt_done" => \A idx \in 0..(Len(ohlcv) - 1) :
              /\ _bounce_return(ohlcv, idx, args.hold_days) = None
                    <=> idx + args.hold_days >= Len(ohlcv)
              /\ _bounce_max_return(ohlcv, idx, args.hold_days) = None
                    <=> idx + args.hold_days >= Len(ohlcv)

\* the walk is over and its last bar, len - hold_days - 1, recorded an event
C18_Witness ==
    /\ Running /\ pc = "bt_done"
    /\ touches # <<>>
    /\ touches[Len(touches)].idx = Len(ohlcv) - args.hold_days - 1
    /\ touches[Len(touches)].idx + args.hold_days = Len(ohlcv) - 1

----------------------------------------------------------------------------
(* what one iteration of the walk-forward loop changes *)

\* the bar the loop is at will be skipped: by the cooldown check, by the
\* alignment check, for want of a touch, or for want of forward data
Skipped ==
    \/ i - last_touch_idx < args.cooldown
    \/ ~Qualifies(i)
    \/ i + args.hold_days >= Len(ohlcv)

\* C19: in the loop, a skipped bar leaves last_touch_idx and the event list
\* unchanged; they change only together, by one event appended for the bar
\* the loop is at and last_touch_idx set to that bar.
C19_ChangeOnlyOnEvent ==
    [][ (mode = "backtest" /\ pc = "bt_loop") =>
            /\ Skipped => (touches' = touches /\ last_touch_idx' = last_touch_idx)
            /\ (touches' # touches \/ last_touch_idx' # last_touch_idx) =>
                  /\ Len(touches') = Len(touches) + 1
                  /\ SubSeq(touches', 1, Len(touches)) = touches
                  /\ touches'[Len(touches')].idx = i
                  /\ last_touch_idx' = i ]_vars

\* the loop is at a bar that is aligned and touches an MA but lies inside the
\* cooldown of the last event, with last_touch_idx still at that event
C19_Witness ==
    /\ Running /\ pc = "bt_loop" /\ i < Len(ohlcv) - args.hold_days
    /\ touches # <<>>
    /\ last_touch_idx = touches[Len(touches)].idx
    /\ i - last_touch_idx >= 2
    /\ i - last_touch_idx < args.cooldown
    /\ Qualifies(i)

----------------------------------------------------------------------------
(* where events are recorded *)

\* the configured periods in ascending order, then the trend MA's period
Stack(a) ==
    LET ps == {a.ma_periods[j] : j \in 1..Len(a.ma_periods)}
        Rank(p) == Cardinality({q \in ps : q < p}) + 1
    IN  [j \in 1..(Cardinality(ps) + 1) |->
            IF j <= Cardinality(ps) THEN CHOOSE p \in ps : Rank(p) = j
            ELSE a.trend_ma]

\* every adjacent pair of the stack is strictly descending in value at idx
StrictlyDescending(s, a, idx) ==
    \A j \in 1..(Len(Stack(a)) - 1) :
        FGt(Ma(s, Stack(a)[j], idx), Ma(s, Stack(a)[j + 1], idx))

\* (low - ma) / ma * 100 <= touch_pct for the MA of period p at idx
LowTouches(s, a, p, idx) ==
    FLe(FScale(FDivF(FSub(Num(Low(s, idx)), Ma(s, p, idx)), Ma(s, p, idx)), 100),
        a.touch_pct)

\* C20: every recorded event is at a bar where the configured MAs in
\* ascending period order followed by the trend MA are strictly descending,
\* and where the low satisfies the touch predicate against the event's MA.
C20_EventsAligned ==
    Running =>
        \A k \in 1..Len(touches) :
            /\ StrictlyDescending(ohlcv, args, touches[k].idx)
            /\ LowTouches(ohlcv, args, touches[k].ma_period, touches[k].idx)

\* an event was recorded, and a bar whose low touches an MA but whose stack
\* has an equal or inverted pair was passed without one
C20_Witness ==
    /\ Running /\ touches # <<>>
    /\ \E idx \in StartIdx(args)..(i - 1) :
          /\ ~StrictlyDescending(ohlcv, args, idx)
          /\ LowTouches(ohlcv, args, args.ma_periods[1], idx)
          /\ EventsAt(idx) = {}

----------------------------------------------------------------------------
(* entry_point on series whose last bars are chosen one by one, with
   lookbacks that reach past the bars the recency weight still counts *)

RecencyTail == 6

\* a steady rise, then RecencyTail bars that gap up (no signal), stay flat
\* (a touch of the fast MA) or rise by one (an approach)
RecencySeries ==
    { Extend(RiseBars(20), t) : t \in [1..RecencyTail -> {"U", "=", "R"}] }

RecencyArgs ==
    { [a EXCEPT !.lookback = lb] :
        a \in {b \in EpArgs : b.touch_pct \in {Num(0), Num(1)}},
        lb \in {3, 5, RecencyTail} }

InitRecency ==
    /\ mode = "scan" /\ pc = "call"
    /\ args \in RecencyArgs /\ ohlcv \in RecencySeries
    /\ i = 0 /\ last_touch_idx = 0 /\ touches = <<>>
    /\ result = None
    /\ loc = ScanLocals
    /\ fundamentals = NoFundamentals

NextRecency == EpGates \/ EpDetect \/ EpReturn

SpecRecency == InitRecency /\ [][NextRecency]_vars

\* the bar `ago` days back qualifies for a signal against the MA of period p:
\* its close is not under the mid MA and its low touches the MA or its
\* close is within approach_pct of it
ComboQualifies(s, a, ago, p) ==
    LET idx == Len(s) - 1 - ago
    IN  /\ idx >= 0
        /\ ~(p = a.d_mid /\ FLt(Num(Close(s, idx)), Ma(s, p, idx)))
        /\ \/ LowNearMa(DistToMa(s, Low(s, idx), p, idx), a.touch_pct)
           \/ FLe(FAbs(DistToMa(s, Close(s, idx), p, idx)), a.approach_pct)

BarQualifies(s, a, ago) ==
    ComboQualifies(s, a, ago, a.d_fast) \/ ComboQualifies(s, a, ago, a.d_mid)

\* the signal search of entry_point has run
Searched == mode = "scan" /\ args.scanner = "entry_point" /\ loc.detected

\* C21: the weight of the bar `ago` days back is max(0, 1 - 0.3 * ago), that
\* is 1.0, 0.7, 0.4 for the three most recent bars and never negative; the
\* retained signal is never on a bar 4 or more days back, and when only
\* such bars qualify the scan returns None.
C21_StaleBarsIgnored ==
    Searched =>
        /\ EpRecency(0) = Num(1) /\ EpRecency(1) = Rat(7, 10) /\ EpRecency(2) = Rat(4, 10)
        /\ \A ago \in 0..(args.lookback - 1) :
              /\ FGe(EpRecency(ago), Num(0))
              /\ EpRecency(ago) = (IF 10 - 3 * ago > 0 THEN Rat(10 - 3 * ago, 10) ELSE Num(0))
        /\ loc.best.signal # "none" => loc.best.candle_ago < 4
        /\ (\A ago \in 0..(args.lookback - 1) : BarQualifies(ohlcv, args, ago) => ago >= 4)
              => (pc = "scanned" /\ IsNone(result) /\ loc.gate = "no_signal")

\* the gates passed, the search reached back five bars or more, a bar 4 or
\* more days back qualified and no younger one did: the scan returned None
C21_Witness ==
    /\ Searched /\ pc = "scanned" /\ IsNone(result) /\ loc.gate = "no_signal"
    /\ args.lookback >= 5
    /\ \E ago \in 4..(args.lookback - 1) : BarQualifies(ohlcv, args, ago)

\* a bar three days back, the oldest that still counts, carries the result
C21_OldestCounted ==
    /\ Searched /\ pc = "scanned" /\ ~IsNone(result)
    /\ loc.best.candle_ago = 3

----------------------------------------------------------------------------
(* entry_point on series where combinations on different bars reach the
   same weighted score *)

TieBase == 5
TieFlat == 18
TieTail == 8

\* TieFlat flat bars, then TieTail bars that each gain two, gapping up or
\* dipping under the previous close
TieSeries ==
    { Extend([j \in 1..TieFlat |-> Bar(c0, c0, c0, c0, (j - 1) \div DaysPerWeek)], t) :
        c0 \in {TieBase, TieBase + 1}, t \in [1..TieTail -> {"V", "W"}] }

TieArgs ==
    { [a EXCEPT !.approach_pct = Num(5)] :
        a \in {b \in EpArgs : b.touch_pct \in {Num(0), Num(1)}} }

InitTie ==
    /\ mode = "scan" /\ pc = "call"
    /\ args \in TieArgs /\ ohlcv \in TieSeries
    /\ i = 0 /\ last_touch_idx = 0 /\ touches = <<>>
    /\ result = None
    /\ loc = ScanLocals
    /\ fundamentals = NoFundamentals

NextTie == EpGates \/ EpDetect \/ EpReturn

SpecTie == InitTie /\ [][NextTie]_vars

\* the (bar, MA) combinations of the lookback window
Combos(s, a) ==
    {c \in (0..(a.lookback - 1)) \X {a.d_fast, a.d_mid} : Len(s) - 1 - c[1] >= 0}

\* the signal and weighted score of one combination taken alone
ComboAlone(s, a, c) == EpCombo(s, a, Len(s) - 1 - c[1], c[1], c[2], NoSignal)

\* the retained combination is one of the window's, with its own signal
\* and score, and no combination of the window scores more
RetainsMaximum(s, a, best) ==
    /\ \E c \in Combos(s, a) :
          /\ c[1] = best.candle_ago /\ c[2] = best.ma
          /\ ComboAlone(s, a, c).signal = best.signal
          /\ ComboAlone(s, a, c).score = best.score
    /\ \A c \in Combos(s, a) : FLe(ComboAlone(s, a, c).score, best.score)

\* C22: the search retains one combination whose weighted score is the
\* maximum over the window, and among combinations of equal weighted score
\* the retained one is on the most recent bar.
C22_MaximumMostRecent ==
    (Searched /\ loc.best.signal # "none") =>
        /\ RetainsMaximum(ohlcv, args, loc.best)
        /\ \A c \in Combos(ohlcv, args) :
              ComboAlone(ohlcv, args, c).score = loc.best.score
                  => c[1] >= loc.best.candle_ago

\* the retained combination has the maximum weighted score of the window
C22_Maximum ==
    (Searched /\ loc.best.signal # "none") =>
        RetainsMaximum(ohlcv, args, loc.best)

\* among combinations of the maximum score the retained one is on the
\* oldest bar: the loop runs from the oldest bar of the window to the latest
C22_TieToOldest ==
    (Searched /\ loc.best.signal # "none") =>
        \A c \in Combos(ohlcv, args) :
            ComboAlone(ohlcv, args, c).score = loc.best.score
                => c[1] <= loc.best.candle_ago

\* two bars of the window reach the retained score
C22_Witness ==
    /\ Searched /\ loc.best.signal # "none" /\ pc = "scanned"
    /\ \E c \in Combos(ohlcv, args) :
          /\ c[1] # loc.best.candle_ago
          /\ ComboAlone(ohlcv, args, c).score = loc.best.score

----------------------------------------------------------------------------
(* the fast and the mid MA on one bar *)

\* the bar of the retained combination qualifies against both MAs
BothQualify ==
    /\ Searched /\ loc.best.signal # "none"
    /\ ComboQualifies(ohlcv, args, loc.best.candle_ago, args.d_fast)
    /\ ComboQualifies(ohlcv, args, loc.best.candle_ago, args.d_mid)

\* C23: when the bar of the retained combination qualifies against both the
\* fast and the mid MA, the retained combination names the fast MA.
C23_FastPreferred == BothQualify => loc.best.ma = args.d_fast

\* the mid MA is named only where it scores strictly more than the fast MA
\* on that bar; on equal scores the fast MA is named
C23_FastOnEqualScore ==
    BothQualify =>
        LET fast == ComboAlone(ohlcv, args, <<loc.best.candle_ago, args.d_fast>>)
            mid  == ComboAlone(ohlcv, args, <<loc.best.candle_ago, args.d_mid>>)
        IN  loc.best.ma = (IF FGt(mid.score, fast.score) THEN args.d_mid ELSE args.d_fast)

\* both MAs qualify on the retained bar with equal scores
C23_EqualScores ==
    /\ BothQualify /\ pc = "scanned"
    /\ ComboAlone(ohlcv, args, <<loc.best.candle_ago, args.d_fast>>).score
         = ComboAlone(ohlcv, args, <<loc.best.candle_ago, args.d_mid>>).score

----------------------------------------------------------------------------
(* the classification of one bar against one MA *)

CandleTail == 3

\* a steady rise ending in CandleTail bars of every kind: hammers under and
\* above the previous close, flat, rising, falling and gapping bars
CandleSeries ==
    { Extend(RiseBars(21), t) : t \in [1..CandleTail -> {"H", "K", "=", "R", "L", "U"}] }

InitCandle ==
    /\ mode = "scan" /\ pc = "call"
    /\ args \in EpArgs /\ ohlcv \in CandleSeries
    /\ i = 0 /\ last_touch_idx = 0 /\ touches = <<>>
    /\ result = None
    /\ loc = ScanLocals
    /\ fundamentals = NoFundamentals

NextCandle == EpGates \/ EpDetect \/ EpReturn

SpecCandle == InitCandle /\ [][NextCandle]_vars

\* how close a distance is to 0 on the scale of tol: 1 at 0, 0 from tol on
Closeness(dist_pct, tol) ==
    IF FGe(FAbs(dist_pct), tol) THEN Num(0)
    ELSE FSub(Num(1), FDivF(FAbs(dist_pct), tol))

\* the facts about the combination c = <<ago, p>> and the scores each signal
\* would have on it
ComboFacts(s, a, c) ==
    LET idx  == Len(s) - 1 - c[1]
        ld   == DistToMa(s, Low(s, idx), c[2], idx)
        cd   == DistToMa(s, Close(s, idx), c[2], idx)
        tol  == IF FGt(a.touch_pct, Rat(1, 100)) THEN a.touch_pct ELSE Rat(1, 100)
        w    == IF c[1] < 4 THEN Rat(10 - 3 * c[1], 10) ELSE Num(0)
    IN  [under    |-> c[2] = a.d_mid /\ Close(s, idx) * c[2] < RollSum(s, c[2], idx),
         hammer   |-> _detect_hammer(a, Open(s, idx), High(s, idx), Low(s, idx), Close(s, idx)),
         touch    |-> FLe(ld, a.touch_pct),
         near     |-> FLe(FAbs(cd), a.approach_pct),
         HAMMER   |-> FMul(FAdd(Num(40), FMul(Closeness(ld, tol), Num(20))), w),
         TOUCH    |-> FMul(FAdd(Num(25), FMul(Closeness(ld, tol), Num(15))), w),
         APPROACHING |-> FMul(FAdd(Num(10), FMul(Closeness(cd, a.approach_pct), Num(15))), w)]

\* C24: each combination is classified as exactly one of HAMMER, TOUCH,
\* APPROACHING or nothing: HAMMER only for a hammer whose low satisfies the
\* touch predicate, TOUCH only for a low that satisfies it on a candle that
\* is not a hammer, APPROACHING only where the touch predicate fails; and on
\* the same bar, MA and recency HAMMER scores at least TOUCH, and TOUCH at
\* least APPROACHING.
C24_Classification ==
    (Searched /\ pc = "scanned") =>
        \A c \in Combos(ohlcv, args) :
            LET f   == ComboFacts(ohlcv, args, c)
                got == ComboAlone(ohlcv, args, c)
            IN  /\ got.signal =
                      (IF f.under THEN "none"
                       ELSE IF f.touch /\ f.hammer THEN "HAMMER"
                       ELSE IF f.touch THEN "TOUCH"
                       ELSE IF f.near THEN "APPROACHING"
                       ELSE "none")
                /\ got.signal # "none" => got.score = f[got.signal]
                /\ FGe(f.HAMMER, f.TOUCH) /\ FGe(f.TOUCH, f.APPROACHING)

\* the window holds a hammer at an MA, a touch, an approach, a combination
\* with no signal, and a hammer whose low is away from the MA
C24_Witness ==
    /\ Searched /\ pc = "scanned"
    /\ \A sig \in {"HAMMER", "TOUCH", "APPROACHING", "none"} :
          \E c \in Combos(ohlcv, args) : ComboAlone(ohlcv, args, c).signal = sig
    /\ \E c \in Combos(ohlcv, args) :
          /\ ComboFacts(ohlcv, args, c).hammer
          /\ ~ComboFacts(ohlcv, args, c).touch
          /\ ComboAlone(ohlcv, args, c).signal # "HAMMER"

----------------------------------------------------------------------------
(* _detect_hammer on single candles *)

\* self._detect_hammer(o, h, l, c) on the one bar of ohlcv
HammerApply ==
    /\ mode = "hammer" /\ pc = "call"
    /\ result' = [k |-> "bool",
                  v |-> _detect_hammer(args, Open(ohlcv, 0), High(ohlcv, 0),
                                       Low(ohlcv, 0), Close(ohlcv, 0))]
    /\ pc' = "done"
    /\ UNCHANGED <<fundamentals, mode, ohlcv, args, i, last_touch_idx, touches, loc>>

HammerMax == 20

\* candles with low <= open, close <= high, the flat candle included
HammerBars ==
    { b \in { Bar(o, h, l, c, 0) : o \in 0..HammerMax, c \in 0..HammerMax,
                                   l \in {0, 1}, h \in 0..HammerMax } :
        /\ b.Low <= b.Open /\ b.Low <= b.Close
        /\ b.High >= b.Open /\ b.High >= b.Close }

HammerArgs ==
    [wick_body_ratio : {Num(2), Rat(3, 2)}, upper_wick_max : {Rat(3, 10), Rat(1, 2)}]

InitHammer ==
    /\ mode = "hammer" /\ pc = "call"
    /\ \E b \in HammerBars : ohlcv = <<b>>
    /\ args \in HammerArgs
    /\ i = 0 /\ last_touch_idx = 0 /\ touches = <<>>
    /\ result = None
    /\ loc = <<>>
    /\ fundamentals = NoFundamentals

NextHammer == HammerApply

SpecHammer == InitHammer /\ [][NextHammer]_vars

HammerDone == mode = "hammer" /\ pc = "done"

\* the parts of the candle, in price units
Range      == ohlcv[1].High - ohlcv[1].Low
BodySize   == Abs(ohlcv[1].Close - ohlcv[1].Open)
LowerShadow == (IF ohlcv[1].Close < ohlcv[1].Open THEN ohlcv[1].Close ELSE ohlcv[1].Open)
               - ohlcv[1].Low
UpperShadow == ohlcv[1].High
               - (IF ohlcv[1].Close > ohlcv[1].Open THEN ohlcv[1].Close ELSE ohlcv[1].Open)

\* x < r * y and x >= r * y for a ratio r = n / d with d > 0
Under(x, r, y)   == x * r.d < r.n * y
AtLeast(x, r, y) == x * r.d >= r.n * y

SmallUpper == Under(UpperShadow, args.upper_wick_max, Range)
Doji       == Under(BodySize, Rat(5, 100), Range)

\* C25: a zero-range bar is never a hammer; with body < 5% of the range the
\* bar is a hammer iff lower shadow >= 60% of the range and upper shadow <
\* upper_wick_max * range; otherwise iff lower shadow >= wick_body_ratio *
\* body and upper shadow < upper_wick_max * range.
C25_TwoRegimes ==
    HammerDone =>
        result.v = (IF Range = 0 THEN FALSE
                    ELSE IF Doji THEN AtLeast(LowerShadow, Rat(6, 10), Range) /\ SmallUpper
                    ELSE AtLeast(LowerShadow, args.wick_body_ratio, BodySize) /\ SmallUpper)

\* C25 with the doji regime as the code has it: lower shadow strictly more
\* than 60% of the range.
C25_TwoRegimesStrict ==
    HammerDone =>
        result.v = (IF Range = 0 THEN FALSE
                    ELSE IF Doji THEN ~Under(LowerShadow, Rat(6, 10), Range)
                                      /\ ~(LowerShadow * 10 = 6 * Range) /\ SmallUpper
                    ELSE AtLeast(LowerShadow, args.wick_body_ratio, BodySize) /\ SmallUpper)

\* a doji whose lower shadow is exactly 60% of the range, with a small
\* upper shadow, was judged not a hammer
C25_Witness ==
    /\ HammerDone /\ Range > 0 /\ Doji /\ SmallUpper
    /\ LowerShadow * 10 = 6 * Range
    /\ result.v = FALSE

\* hammers of both regimes, a candle at the 5% body boundary and a flat
\* candle were judged
C25_DojiHammer == HammerDone /\ Doji /\ result.v = TRUE
C25_StandardHammer ==
    HammerDone /\ Range > 0 /\ BodySize * 100 = 5 * Range /\ result.v = TRUE
C25_FlatCandle == HammerDone /\ Range = 0 /\ result.v = FALSE

----------------------------------------------------------------------------
(* the touch-tightness component of strong_pullback *)

\* strong_pullback passed its touch gate and its bounce check
TouchGatePassed ==
    /\ mode = "scan" /\ args.scanner = "strong_pullback"
    /\ loc.detected /\ loc.gate = "pass"

\* C26: for every series that passes the touch gate the touch-tightness
\* component lies in [0, 30].
C26_TightnessInRange ==
    TouchGatePassed =>
        /\ FGe(SpTouchScore(args, loc.best), Num(0))
        /\ FLe(SpTouchScore(args, loc.best), Num(30))

\* the component is in [0, 30] whenever the closest low is within touch_pct
\* of the touched MA, and 30 when it is at the MA
C26_InRangeWithinTouchPct ==
    (TouchGatePassed /\ FGt(args.touch_pct, Num(0))
       /\ FLe(loc.best.best_touch_dist, args.touch_pct)) =>
        /\ FGe(SpTouchScore(args, loc.best), Num(0))
        /\ FLe(SpTouchScore(args, loc.best), Num(30))
        /\ loc.best.best_touch_dist = Num(0) => SpTouchScore(args, loc.best) = Num(30)

\* a result was returned whose closest low is at the touched MA
C26_AtTheMa ==
    /\ TouchGatePassed /\ pc = "scanned" /\ FGt(args.touch_pct, Num(0))
    /\ loc.best.best_touch_dist = Num(0)

\* a result was returned with a negative component for a positive touch_pct
C26_Negative ==
    /\ TouchGatePassed /\ pc = "scanned" /\ ~IsNone(result)
    /\ FGt(args.touch_pct, Num(0))
    /\ FLt(SpTouchScore(args, loc.best), Num(0))

----------------------------------------------------------------------------
(* the result the scan command prints after its auto-backtest *)

\* the scan command is about to print its result, after the auto-backtest
Displayed == mode = "scan" /\ pc = "done" /\ IsScanResult(result)

\* C27: after the auto-backtest has replaced the score by the combined 60/40
\* value, the displayed result's signal is the label its scanner's
\* thresholds assign to the displayed score.
C27_LabelOfDisplayedScore ==
    Displayed => result.signal = LabelOf(args.scanner, result.score)

\* the displayed signal is the one the scanner returned, whatever the
\* combined score is
C27_LabelKept == Displayed => result.signal = loc.r.signal

\* the scanner's label agreed with the score it returned, and no longer
\* agrees with the combined score that is displayed
C27_StaleLabel ==
    /\ Displayed
    /\ loc.r.signal = LabelOf(args.scanner, loc.r.score)
    /\ result.score # loc.r.score
    /\ result.signal # LabelOf(args.scanner, result.score)

----------------------------------------------------------------------------
(* which MA the events are attributed to *)

\* the smallest configured period
Fastest(a) ==
    CHOOSE p \in {a.ma_periods[j] : j \in 1..Len(a.ma_periods)} :
        \A j \in 1..Len(a.ma_periods) : p <= a.ma_periods[j]

PositivePrices(s) ==
    \A j \in 1..Len(s) : s[j].Open > 0 /\ s[j].High > 0 /\ s[j].Low > 0 /\ s[j].Close > 0

\* the backtest has returned its report on a series with positive prices
Reported == mode = "backtest" /\ pc = "bt_done" /\ PositivePrices(ohlcv)

\* C28: on positive prices every recorded event is attributed to the
\* smallest configured period; at a bar with a strictly descending stack a
\* low that touches any MA touches the fastest one; the per-MA touch count
\* of every other period is 0 and total_touches is the fastest MA's count.
C28_AllOnFastest ==
    Reported =>
        /\ \A k \in 1..Len(touches) : touches[k].ma_period = Fastest(args)
        /\ \A idx \in StartIdx(args)..(Len(ohlcv) - 1) :
              (StrictlyDescending(ohlcv, args, idx) /\ TouchedPeriods(idx) # {})
                  => Fastest(args) \in TouchedPeriods(idx)
        /\ \A p \in DOMAIN result.ma_touches :
              result.ma_touches[p] = (IF p = Fastest(args) THEN result.total_touches ELSE 0)

\* the report counts events, one of them at a bar whose low touches a slower
\* MA as well
C28_Witness ==
    /\ Reported /\ result.total_touches > 0
    /\ result.ma_touches[Fastest(args)] = result.total_touches
    /\ \E k \in 1..Len(touches) : Cardinality(TouchedPeriods(touches[k].idx)) = 2

====
